---- MODULE Spec2Model ----
(***************************************************************************)
(* Model of the batch pipeline of exporter/main.py: PoisonPill,            *)
(* JobExecutor.run over a ThreadPoolExecutor, the job functions            *)
(* process_document and execute_get_document, and the orchestration        *)
(* functions process_extracted_documents and process_documents_in_bulk.    *)
(***************************************************************************)
EXTENDS Integers, Sequences, FiniteSets, Bags, TLC

\* ------------------------------------------------------------------ bounds
NJobs == 3           \* longest job list explored
MaxWorkers == 2      \* largest max_workers of a directly built JobExecutor
MaxInterrupts == 1   \* KeyboardInterrupts delivered to the calling thread
MaxArticles == 2     \* largest set of articles given to a bulk adapter
MaxInvocations == 2  \* command_function() calls made on one adapter
MaxRuns == 2         \* run() calls made on one JobExecutor

\* max_workers passed by both orchestration functions
OrchestrationMaxWorkers == 4

\* default of config.get("EXPORT_RUN_RETRIES")
EXPORT_RUN_RETRIES == 3

\* ------------------------------------------------------------------ values
Pids == <<"S0100-1", "S0100-2", "S0100-3", "S0100-4", "S0100-5">>
Collections == <<"scl", "arg">>

Entries == {"process_extracted_documents", "process_documents_in_bulk",
            "JobExecutor", "job_function"}
JobFunctions == {"process_document", "execute_get_document"}

\* PoisonPill instances: the one built by JobExecutor.__init__, the
\* default-argument instance of the job functions, one built by a caller
\* of a job function.
PillIds == {"executor", "default", "caller"}

NoFuture == 0
NoException == "none"
NoFile == <<<<"<absent>">>>>
OldLine == <<"{", "pid", "S0000-0", "status", "OK", "}", "\n">>
OldContent == <<"{", "pid", "S0000-0", "status", "OLD", "}">>

VARIABLES
    entry,            \* which entry point of the module is being executed
    func,             \* JobExecutor.func / the job function called directly
    max_workers,      \* JobExecutor.max_workers
    jobs,             \* the job list: a sequence of argument mappings
    index,            \* the index name given to the entry point
    index_command,    \* the command name given to the entry point
    is_dir,           \* output_path.is_dir()
    initial_file,     \* lines output_path held when the entry point was called
    initial_dir,      \* files output_path held then, when it is a directory
    poisoned,         \* PoisonPill.poisoned of every PoisonPill instance
    executor_attrs,   \* attributes set on the JobExecutor instance besides __init__'s
    futures,          \* futures[f]: the job mapped to the f-th submitted future
    work_queue,       \* the pool's FIFO of futures not yet picked by a worker
    num_threads,      \* worker threads of the pool
    jstate,           \* position of every job body
    call_args,        \* arguments each job body was invoked with
    outcome,          \* what every job body returned or raised
    fetch_calls,      \* get_document calls made by each job body
    adapter_calls,    \* XyloseArticleExporterAdapter built and run by each job body
    main_pc,          \* position of the thread that called the entry point
    cur,              \* future of the current iteration of the as_completed loop
    yielded,          \* futures as_completed has already yielded
    pending,          \* exception in flight in the calling thread
    run_outcome,      \* how JobExecutor.run / the entry point ended
    active_callbacks, \* callback invocations that have begun and not yet ended
    callback_calls,   \* every terminal callback invocation, per future
    bar_calls,        \* update_bar invocations, per future
    output_file,      \* lines of output_path when it is a file
    output_dir,       \* files of output_path when it is a directory
    error_log,        \* logger.error records, as a bag
    info_log,         \* logging.info records
    documents,        \* the set built by process_documents_in_bulk
    articles_adapter, \* XyloseArticlesListExporterAdapter constructor calls
    bulk_requests,    \* HTTP requests sent to the bulk URL of the index
    ret,              \* what the bulk command_function returned
    interrupts,       \* KeyboardInterrupts delivered so far
    earlier_runs,     \* per earlier run() of the executor: the pills its jobs got
    adapter_input,    \* class and constructor arguments of the adapter under study
    environ,          \* os.environ as config.get reads it
    adapter_pc,       \* position of the caller of the adapter
    index_exporters,  \* the adapter's exporters, in the order fixed by __init__
    request,          \* the HTTP request being sent
    attempts,         \* attempts made for the request being sent
    http_log,         \* every attempt made: the requests handed to requests.*
    outcomes,         \* how every attempt ended: a status code or an exception
    response,         \* the response the last attempt got
    raised_exception, \* what the constructor or command_function raised
    command_result,   \* what command_function returned
    clock,            \* the UTC clock, in ticks since the module doaj was imported
    invocations       \* command_function() calls made on the adapter

vars == <<entry, func, max_workers, jobs, index, index_command, is_dir, initial_file, initial_dir, poisoned, executor_attrs,
          futures, work_queue, num_threads, jstate, call_args, outcome,
          fetch_calls, adapter_calls, main_pc, cur, yielded, pending,
          run_outcome, active_callbacks, callback_calls, bar_calls,
          output_file, output_dir, error_log, info_log, documents,
          articles_adapter, bulk_requests, ret, interrupts, earlier_runs,
          adapter_input, environ, adapter_pc, index_exporters, request, attempts,
          http_log, outcomes, response, raised_exception, command_result, clock,
          invocations>>

config_vars == <<entry, func, max_workers, jobs, index, index_command, is_dir,
                 initial_file, initial_dir>>
pool_vars == <<futures, work_queue, num_threads>>
body_vars == <<jstate, call_args, outcome, fetch_calls, adapter_calls>>
sink_vars == <<output_file, output_dir, error_log, documents>>
callback_vars == <<active_callbacks, callback_calls, bar_calls>>
bulk_vars == <<articles_adapter, bulk_requests, ret>>
pipeline_vars == <<config_vars, poisoned, executor_attrs, pool_vars, body_vars,
                   main_pc, cur, yielded, pending, run_outcome, callback_vars,
                   sink_vars, info_log, interrupts, bulk_vars, earlier_runs>>
adapter_vars == <<adapter_input, environ, adapter_pc, index_exporters, request,
                  attempts, http_log, outcomes, response, raised_exception,
                  command_result, clock, invocations>>

\* ----------------------------------------------------------------- helpers
Range(s) == {s[i] : i \in DOMAIN s}

RECURSIVE SeqSum(_)
SeqSum(s) == IF s = <<>> THEN 0 ELSE Head(s) + SeqSum(Tail(s))

\* pids_by_collection for a run over n documents: the first collection
\* gets the first (n+1) \div 2 pids, the second one the rest.
PidsByCollection(n) ==
    LET k == (n + 1) \div 2
    IN  <<[collection |-> Collections[1], pids |-> SubSeq(Pids, 1, k)],
          [collection |-> Collections[2], pids |-> SubSeq(Pids, k + 1, n)]>>

\* the comprehension that builds the job list, collection by collection
RECURSIVE BuildJobs(_)
BuildJobs(pbc) ==
    IF pbc = <<>> THEN <<>>
    ELSE [i \in 1..Len(Head(pbc).pids) |->
              [collection |-> Head(pbc).collection, pid |-> Head(pbc).pids[i]]]
         \o BuildJobs(Tail(pbc))

Futures == 1..Len(jobs)
Submitted == 1..Len(futures)

\* variant: the pid is left out of the serialisation
JsonDumps_NoPid(result) ==
    IF result.tag = "None" THEN <<"null">>
    ELSE <<"{", "status", result.tag, "}">>

\* json.dumps of a job result
JsonDumps(result) ==
    IF result.tag = "None" THEN <<"null">>
    ELSE <<"{", "pid", result.pid, "status", result.tag, "}">>

JsonLine(result) == JsonDumps(result) \o <<"\n">>

\* variant: every result goes to the same file
FileName_Shared(pid) == <<"result", ".json">>

\* f'{job["pid"]}.json'
FileName(pid) == <<pid, ".json">>

NoFiles == [name \in {} |-> <<>>]

\* a directory left by an earlier run: the file of the first pid, and a
\* file that belongs to no pid of this run
OldDir == [name \in {FileName(Pids[1]), <<"README", ".txt">>} |-> OldContent]

NotFinished == [kind |-> "pending", tag |-> "", pid |-> "", origin |-> NoFuture]
Returned(tag, pid, f) == [kind |-> "returned", tag |-> tag, pid |-> pid, origin |-> f]
Raised(tag, pid, f) == [kind |-> "raised", tag |-> tag, pid |-> pid, origin |-> f]

NoArgs == [job |-> [collection |-> "", pid |-> ""], poison_pill |-> "none"]

Running == {f \in Futures : jstate[f] \in {"fetch", "command"}}

\* ------------------------------------------------- adapter construction
\* commands XyloseArticleExporterAdapter.__init__ binds to a method
AdapterCommands == {"export", "update", "get", "delete"}

\* commands XyloseArticlesListExporterAdapter.__init__ binds to a method
BulkAdapterCommands == {"export", "delete"}

NoError == [class |-> "none", message |-> <<>>]

InvalidExporterInitData(message) ==
    [class |-> "InvalidExporterInitData", message |-> message]

\* the environment read by config.get: the URL has a default, the key none
ConfiguredEnv == [DOAJ_API_URL |-> "https://doaj.org/api/", DOAJ_API_KEY |-> "secret"]

\* DOAJExporterXyloseArticle.__init__: _set_api_config raises for the first
\* of the two variables that is empty
SetApiConfig(env) ==
    IF env.DOAJ_API_URL = ""
    THEN [class |-> "DOAJExporterXyloseArticleNoRequestData",
          message |-> <<"No ", "DOAJ_API_URL", " set">>]
    ELSE IF env.DOAJ_API_KEY = ""
    THEN [class |-> "DOAJExporterXyloseArticleNoRequestData",
          message |-> <<"No ", "DOAJ_API_KEY", " set">>]
    ELSE NoError

\* variant: an unknown command is reported with the message of the index
AdapterInit_OneMessage(idx, command, env) ==
    IF idx # "doaj"
    THEN InvalidExporterInitData(<<"Index informado inválido: ", idx>>)
    ELSE IF SetApiConfig(env) # NoError THEN SetApiConfig(env)
    ELSE IF command \notin AdapterCommands
    THEN InvalidExporterInitData(<<"Index informado inválido: ", command>>)
    ELSE NoError

\* XyloseArticleExporterAdapter.__init__: the exception it raises, if any.
\* The index is looked at first, then the DOAJ exporter is built, then the
\* command is looked at.
AdapterInit(idx, command, env) ==
    IF idx # "doaj"
    THEN InvalidExporterInitData(<<"Index informado inválido: ", idx>>)
    ELSE IF SetApiConfig(env) # NoError THEN SetApiConfig(env)
    ELSE IF command \notin AdapterCommands
    THEN InvalidExporterInitData(<<"Comando informado inválido: ", command>>)
    ELSE NoError

\* variant: the bulk adapter takes the commands of the single-document one
BulkAdapterInit_AllCommands(idx, command, env, articles) ==
    IF idx # "doaj"
    THEN InvalidExporterInitData(<<"Index informado inválido: ", idx>>)
    ELSE IF articles # {} /\ SetApiConfig(env) # NoError THEN SetApiConfig(env)
    ELSE IF articles = {}
    THEN [class |-> "IndexError", message |-> <<"list index out of range">>]
    ELSE IF command \notin AdapterCommands
    THEN InvalidExporterInitData(<<"Comando informado inválido: ", command>>)
    ELSE NoError

\* XyloseArticlesListExporterAdapter.__init__: one DOAJ exporter per article,
\* index_exporters[0] for the bulk URL, then the command
BulkAdapterInit(idx, command, env, articles) ==
    IF idx # "doaj"
    THEN InvalidExporterInitData(<<"Index informado inválido: ", idx>>)
    ELSE IF articles # {} /\ SetApiConfig(env) # NoError THEN SetApiConfig(env)
    ELSE IF articles = {}
    THEN [class |-> "IndexError", message |-> <<"list index out of range">>]
    ELSE IF command \notin BulkAdapterCommands
    THEN InvalidExporterInitData(<<"Comando informado inválido: ", command>>)
    ELSE NoError

\* what an orchestration function is called with: a valid index and
\* command over an absent file, an existing file and (single-document path)
\* a directory; an unknown index; a command its adapter does not have
OrchestrationInputs(e) ==
    IF e = "process_extracted_documents"
    THEN {[index |-> "doaj", command |-> "export", is_dir |-> FALSE, file |-> NoFile],
          [index |-> "doaj", command |-> "export", is_dir |-> FALSE, file |-> <<OldLine>>],
          [index |-> "doaj", command |-> "export", is_dir |-> TRUE, file |-> NoFile],
          [index |-> "scielo", command |-> "export", is_dir |-> FALSE, file |-> <<OldLine>>],
          [index |-> "doaj", command |-> "put", is_dir |-> TRUE, file |-> NoFile]}
    ELSE {[index |-> "doaj", command |-> "export", is_dir |-> FALSE, file |-> NoFile],
          [index |-> "doaj", command |-> "export", is_dir |-> FALSE, file |-> <<OldLine>>],
          [index |-> "scielo", command |-> "export", is_dir |-> FALSE, file |-> NoFile],
          [index |-> "doaj", command |-> "get", is_dir |-> FALSE, file |-> <<OldLine>>]}

\* ------------------------------------------------ adapters on their own
NoRequest == [method |-> "none", url |-> <<>>, params |-> <<>>, json |-> <<>>]
NoResponse == [status_code |-> 0, error |-> <<>>, has_body |-> FALSE, body |-> <<>>]
NoResult == <<>>

\* no adapter is under study: the pipeline is
AdaptersIdle ==
    /\ adapter_input = [class |-> "none", index |-> "", command |-> "", articles |-> {}]
    /\ environ = ConfiguredEnv
    /\ adapter_pc = "idle"
    /\ index_exporters = <<>>
    /\ request = NoRequest
    /\ attempts = 0
    /\ http_log = <<>>
    /\ outcomes = <<>>
    /\ response = NoResponse
    /\ raised_exception = NoError
    /\ command_result = NoResult
    /\ clock = 0
    /\ invocations = 0

\* -------------------------------------------------------------------- Init
InitCommon ==
    /\ executor_attrs = {}
    /\ futures = <<>>
    /\ work_queue = <<>>
    /\ num_threads = 0
    /\ jstate = [f \in Futures |-> "unsubmitted"]
    /\ call_args = [f \in Futures |-> NoArgs]
    /\ outcome = [f \in Futures |-> NotFinished]
    /\ fetch_calls = [f \in Futures |-> 0]
    /\ adapter_calls = [f \in Futures |-> 0]
    /\ cur = NoFuture
    /\ yielded = {}
    /\ pending = NoException
    /\ run_outcome = "running"
    /\ active_callbacks = {}
    /\ callback_calls = [f \in Futures |-> <<>>]
    /\ bar_calls = [f \in Futures |-> 0]
    /\ output_dir = initial_dir
    /\ error_log = EmptyBag
    /\ info_log = <<>>
    /\ documents = {}
    /\ articles_adapter = <<>>
    /\ bulk_requests = 0
    /\ ret = <<>>
    /\ interrupts = 0
    /\ earlier_runs = <<>>

InitOrchestration ==
    /\ entry \in {"process_extracted_documents", "process_documents_in_bulk"}
    /\ func = IF entry = "process_extracted_documents"
              THEN "process_document" ELSE "execute_get_document"
    /\ max_workers = OrchestrationMaxWorkers
    /\ \E c \in OrchestrationInputs(entry) :
          /\ index = c.index /\ index_command = c.command
          /\ is_dir = c.is_dir /\ initial_file = c.file
    /\ \E n \in 0..NJobs : jobs = BuildJobs(PidsByCollection(n))
    /\ initial_dir = IF is_dir THEN OldDir ELSE NoFiles
    /\ output_file = initial_file
    /\ poisoned = [p \in PillIds |-> FALSE]
    /\ main_pc = "submit"

InitExecutor ==
    /\ entry = "JobExecutor"
    /\ func = "execute_get_document"
    /\ max_workers \in 1..MaxWorkers
    /\ index = "doaj" /\ index_command = "export"
    /\ \E n \in 0..NJobs : jobs = BuildJobs(PidsByCollection(n))
    /\ is_dir = FALSE
    /\ initial_file = NoFile
    /\ initial_dir = NoFiles
    /\ output_file = initial_file
    /\ poisoned = [p \in PillIds |-> FALSE]
    /\ main_pc = "submit"

InitJobFunction ==
    /\ entry = "job_function"
    /\ func \in JobFunctions
    /\ max_workers = 1
    /\ index = "doaj" /\ index_command = "export"
    /\ jobs = BuildJobs(PidsByCollection(1))
    /\ is_dir = FALSE
    /\ initial_file = NoFile
    /\ initial_dir = NoFiles
    /\ output_file = initial_file
    /\ \E b \in BOOLEAN : poisoned = [p \in PillIds |-> p = "caller" /\ b]
    /\ main_pc = "call"

Init ==
    /\ \/ InitOrchestration
       \/ InitExecutor
       \/ InitJobFunction
    /\ InitCommon
    /\ AdaptersIdle

\* ------------------------------------------------------------- job bodies
\* variant: the body never looks at its pill
PillObserved_Ignored(pill) == FALSE

\* the guard both job functions open with
PillObserved(pill) == poisoned[pill]

\* variant: the guard uses the pill up
PillsAfterCheck_Consumed(pill) == [poisoned EXCEPT ![pill] = FALSE]

\* the guard only reads the pill: every PoisonPill is left as it was
PillsAfterCheck(pill) == poisoned

\* Entry of a job body invoked with job mapping futures[f] and a pill:
\* return None at once when the pill is poisoned, go on to fetch otherwise.
EnterBody(f, job, pill) ==
    /\ call_args' = [call_args EXCEPT ![f] = [job |-> job, poison_pill |-> pill]]
    /\ IF PillObserved(pill)
       THEN /\ jstate' = [jstate EXCEPT ![f] = "finished"]
            /\ outcome' = [outcome EXCEPT ![f] = Returned("None", "", f)]
       ELSE /\ jstate' = [jstate EXCEPT ![f] = "fetch"]
            /\ UNCHANGED outcome
    /\ poisoned' = PillsAfterCheck(pill)

\* keyword arguments of the call a worker makes for future f
SubmitArgs(f) == [job |-> futures[f], poison_pill |-> "executor"]

\* variant: a worker thread ends after its first job
WorkerFree_OneJobEach ==
    Cardinality({f \in Futures : call_args[f] # NoArgs}) < num_threads

\* a worker thread is free to take the head of the queue
WorkerFree == Cardinality(Running) < num_threads

\* A worker takes the oldest queued future and enters the job body.
StartJob(f) ==
    /\ work_queue # <<>>
    /\ f = Head(work_queue)
    /\ WorkerFree
    /\ work_queue' = Tail(work_queue)
    /\ EnterBody(f, SubmitArgs(f).job, SubmitArgs(f).poison_pill)
    /\ UNCHANGED <<config_vars, earlier_runs, executor_attrs, futures, num_threads,
                   fetch_calls, adapter_calls, main_pc, cur, yielded, pending,
                   run_outcome, callback_vars, sink_vars, info_log,
                   interrupts, bulk_vars, adapter_vars>>

\* what get_document may return: nothing, a document whose data is empty,
\* an article
SourceDocuments == {"None", "empty", "Article"}

\* variant: only a missing document is refused
DocumentMissing_NoneOnly(document) == document = "None"

\* if not document or not document.data
DocumentMissing(document) == document \in {"None", "empty"}

\* document = get_document(collection, pid); raise when absent or empty;
\* execute_get_document returns the document.
GetDocument(f) ==
    /\ jstate[f] = "fetch"
    /\ fetch_calls' = [fetch_calls EXCEPT ![f] = @ + 1]
    /\ \E document \in SourceDocuments :
         IF DocumentMissing(document)
         THEN /\ jstate' = [jstate EXCEPT ![f] = "finished"]
              /\ outcome' = [outcome EXCEPT ![f] =
                     Raised("ArticleMetaDocumentNotFound", call_args[f].job.pid, f)]
         ELSE IF func = "execute_get_document"
         THEN /\ jstate' = [jstate EXCEPT ![f] = "finished"]
              /\ outcome' = [outcome EXCEPT ![f] =
                     Returned(document, call_args[f].job.pid, f)]
         ELSE /\ jstate' = [jstate EXCEPT ![f] = "command"]
              /\ UNCHANGED outcome
    /\ UNCHANGED <<config_vars, earlier_runs, poisoned, executor_attrs, pool_vars, call_args,
                   adapter_calls, main_pc, cur, yielded, pending,
                   run_outcome, callback_vars, sink_vars, info_log, interrupts,
                   bulk_vars, adapter_vars>>

\* how running command_function on an adapter can end: with the command's
\* result, or with an exception (a payload validation error,
\* IndexExporterHTTPError, an exhausted retry)
CommandEnds == {"OK", "Exception"}

\* article_adapter = XyloseArticleExporterAdapter(...);
\* return article_adapter.command_function()
CommandFunction(f) ==
    /\ jstate[f] = "command"
    /\ \E e \in (IF AdapterInit(index, index_command, ConfiguredEnv) = NoError
                THEN CommandEnds
                ELSE {AdapterInit(index, index_command, ConfiguredEnv).class}) :
         /\ adapter_calls' = [adapter_calls EXCEPT ![f] = @ + 1]
         /\ outcome' = [outcome EXCEPT ![f] =
                IF e = "OK" THEN Returned("OK", call_args[f].job.pid, f)
                ELSE Raised(e, call_args[f].job.pid, f)]
    /\ jstate' = [jstate EXCEPT ![f] = "finished"]
    /\ UNCHANGED <<config_vars, earlier_runs, poisoned, executor_attrs, pool_vars, call_args,
                   fetch_calls, main_pc, cur, yielded, pending,
                   run_outcome, callback_vars, sink_vars, info_log, interrupts,
                   bulk_vars, adapter_vars>>

\* ------------------------------------------- a job function called directly
\* process_document(...) / execute_get_document(...) called by a client,
\* with the default pill or with one of its own.
CallJobFunction ==
    /\ main_pc = "call"
    /\ \E pill \in {"default", "caller"} : EnterBody(1, jobs[1], pill)
    /\ main_pc' = "in_call"
    /\ UNCHANGED <<config_vars, earlier_runs, executor_attrs, pool_vars,
                   fetch_calls, adapter_calls, cur, yielded, pending,
                   run_outcome, callback_vars, sink_vars, info_log, interrupts,
                   bulk_vars, adapter_vars>>

JobFunctionEnds ==
    /\ main_pc = "in_call"
    /\ jstate[1] = "finished"
    /\ main_pc' = "exited"
    /\ UNCHANGED <<config_vars, earlier_runs, poisoned, executor_attrs, pool_vars, body_vars,
                   cur, yielded, pending, run_outcome, callback_vars, sink_vars, info_log,
                   interrupts, bulk_vars, adapter_vars>>


\* ------------------------------------------------------ JobExecutor.run
\* variant: a new worker thread for every submit
ThreadsAfterSubmit_Unbounded == num_threads + 1

\* the pool starts a worker thread for a submit while it has fewer than
\* max_workers of them
ThreadsAfterSubmit == IF num_threads < max_workers THEN num_threads + 1 ELSE num_threads

\* _executor.submit(self.func, **job, poison_pill=self.poison_pill): job,
\* for the next job of the list
Submit ==
    /\ main_pc = "submit"
    /\ Len(futures) < Len(jobs)
    /\ LET f == Len(futures) + 1
       IN  /\ futures' = Append(futures, jobs[f])
           /\ work_queue' = Append(work_queue, f)
           /\ jstate' = [jstate EXCEPT ![f] = "queued"]
    /\ num_threads' = ThreadsAfterSubmit
    /\ UNCHANGED <<config_vars, earlier_runs, poisoned, executor_attrs, call_args, outcome,
                   fetch_calls, adapter_calls, main_pc, cur,
                   yielded, pending, run_outcome, callback_vars, sink_vars,
                   info_log, interrupts,
                   bulk_vars, adapter_vars>>

\* the comprehension is exhausted: enter the try block and as_completed
AsCompleted ==
    /\ main_pc = "submit"
    /\ Len(futures) = Len(jobs)
    /\ main_pc' = "wait"
    /\ UNCHANGED <<config_vars, earlier_runs, poisoned, executor_attrs, pool_vars, body_vars,
                   cur, yielded, pending, run_outcome, callback_vars, sink_vars,
                   info_log, interrupts,
                   bulk_vars, adapter_vars>>

\* variant: the next future is taken while an outcome callback is running
LoopIdle_Overlapping == main_pc \in {"wait", "in_callback"}

\* the loop takes its next future only between two iterations
LoopIdle == main_pc = "wait"

\* variant: as_completed yields a future whatever its state
Done_Whenever(f) == TRUE

\* the future is in a finished state: its job body has returned or raised
Done(f) == jstate[f] = "finished"

\* as_completed yields a finished future it has not yielded yet
NextCompleted(f) ==
    /\ LoopIdle
    /\ f \in Submitted \ yielded
    /\ Done(f)
    /\ cur' = f
    /\ yielded' = yielded \cup {f}
    /\ main_pc' = "result"
    /\ UNCHANGED <<config_vars, earlier_runs, poisoned, executor_attrs, pool_vars, body_vars,
                   pending, run_outcome, callback_vars, sink_vars, info_log,
                   interrupts, bulk_vars, adapter_vars>>

\* variant: every outcome goes to the success callback
OutcomeCallback_AlwaysSuccess(o) == "success_callback"

\* future.result() raised: except branch; returned: else branch
OutcomeCallback(o) ==
    IF o.kind = "raised" THEN "exception_callback" ELSE "success_callback"

\* what the job functions raise: ArticleMetaDocumentNotFound and the
\* adapter's exceptions, all subclasses of Exception
JobExceptions == {"ArticleMetaDocumentNotFound", "InvalidExporterInitData", "Exception"}

\* variant: the clause catches nothing
Caught_Nothing(o) == FALSE

\* except Exception as exc: what the clause catches of future.result()
Caught(o) == o.kind = "raised" /\ o.tag \in JobExceptions

\* job = futures[future]; result = future.result();
\* self.exception_callback(exc, job) / self.success_callback(result, job)
CallOutcomeCallback ==
    /\ main_pc = "result"
    /\ IF outcome[cur].kind = "raised" /\ ~Caught(outcome[cur])
       THEN /\ pending' = outcome[cur].tag
            /\ main_pc' = "finally"
            /\ UNCHANGED <<callback_calls, active_callbacks>>
       ELSE LET call == [callback |-> OutcomeCallback(outcome[cur]),
                         payload |-> outcome[cur],
                         job |-> futures[cur]]
            IN  /\ callback_calls' = [callback_calls EXCEPT ![cur] = Append(@, call)]
                /\ active_callbacks' = active_callbacks \cup
                       {[callback |-> call.callback, future |-> cur]}
                /\ main_pc' = "in_callback"
                /\ UNCHANGED pending
    /\ UNCHANGED <<config_vars, earlier_runs, poisoned, executor_attrs, pool_vars, body_vars,
                   cur, yielded, run_outcome, bar_calls, sink_vars,
                   info_log, interrupts,
                   bulk_vars, adapter_vars>>

\* write_result of process_extracted_documents
WriteResult(result, job) ==
    IF is_dir
    THEN /\ output_dir' = [name \in DOMAIN output_dir \cup {FileName(job.pid)} |->
                IF name = FileName(job.pid) THEN JsonDumps(result)
                ELSE output_dir[name]]
         /\ UNCHANGED output_file
    ELSE /\ output_file' = (IF output_file = NoFile THEN <<>> ELSE output_file)
                           \o <<JsonLine(result)>>
         /\ UNCHANGED output_dir

\* variant: the record does not name the document
LogException_NoPid(exception, job) ==
    error_log' = error_log (+) SetToBag({[pid |-> "", exception |-> exception]})

\* log_exception
LogException(exception, job) ==
    error_log' = error_log (+) SetToBag({[pid |-> job.pid, exception |-> exception]})

\* what the callbacks configured by the entry point do with one call
CallbackEffect(call) ==
    IF entry = "JobExecutor"
    THEN UNCHANGED sink_vars
    ELSE IF call.callback = "exception_callback"
    THEN /\ LogException(call.payload, call.job)
         /\ UNCHANGED <<output_file, output_dir, documents>>
    ELSE IF entry = "process_extracted_documents"
    THEN /\ WriteResult(call.payload, call.job)
         /\ UNCHANGED <<error_log, documents>>
    ELSE /\ documents' = documents \cup {call.payload}
         /\ UNCHANGED <<output_file, output_dir, error_log>>

CurrentCall == callback_calls[cur][Len(callback_calls[cur])]

\* the outcome callback does its work and returns
CallbackReturns ==
    /\ main_pc = "in_callback"
    /\ CallbackEffect(CurrentCall)
    /\ active_callbacks' = active_callbacks \
           {[callback |-> CurrentCall.callback, future |-> cur]}
    /\ main_pc' = "finally"
    /\ UNCHANGED <<config_vars, earlier_runs, poisoned, executor_attrs, pool_vars, body_vars,
                   cur, yielded, pending, run_outcome, callback_calls, bar_calls,
                   info_log, interrupts,
                   bulk_vars, adapter_vars>>

\* the outcome callback raises: write_result fails on its file (OSError);
\* a callback handed to JobExecutor by its caller, success_callback or
\* exception_callback, may raise as well
CallbackRaises ==
    /\ main_pc = "in_callback"
    /\ \/ entry = "process_extracted_documents" /\ CurrentCall.callback = "success_callback"
       \/ entry = "JobExecutor"
    /\ pending' = "OSError"
    /\ active_callbacks' = active_callbacks \
           {[callback |-> CurrentCall.callback, future |-> cur]}
    /\ main_pc' = "finally"
    /\ UNCHANGED <<config_vars, earlier_runs, poisoned, executor_attrs, pool_vars, body_vars,
                   cur, yielded, run_outcome, callback_calls, bar_calls,
                   sink_vars, info_log, interrupts,
                   bulk_vars, adapter_vars>>

\* finally: self.update_bar()
UpdateBar ==
    /\ main_pc = "finally"
    /\ bar_calls' = [bar_calls EXCEPT ![cur] = @ + 1]
    /\ active_callbacks' = active_callbacks \cup
           {[callback |-> "update_bar", future |-> cur]}
    /\ main_pc' = "in_update_bar"
    /\ UNCHANGED <<config_vars, earlier_runs, poisoned, executor_attrs, pool_vars, body_vars,
                   cur, yielded, pending, run_outcome, callback_calls,
                   sink_vars, info_log, interrupts,
                   bulk_vars, adapter_vars>>

\* variant: the outer try catches every exception
AfterFinally_CatchAll(exc) == IF exc = NoException THEN "wait" ELSE "except"

\* where control goes when the finally clause ends: to the next iteration,
\* or with the exception in flight to "except KeyboardInterrupt", which
\* takes no other exception: that one leaves the with block
AfterFinally(exc) ==
    IF exc = NoException THEN "wait"
    ELSE IF exc = "KeyboardInterrupt" THEN "except"
    ELSE "exit"

\* update_bar returns: next iteration, or the exception in flight goes on
\* to the except clause of the outer try
UpdateBarReturns ==
    /\ main_pc = "in_update_bar"
    /\ active_callbacks' = active_callbacks \
           {[callback |-> "update_bar", future |-> cur]}
    /\ main_pc' = AfterFinally(pending)
    /\ cur' = IF pending = NoException THEN NoFuture ELSE cur
    /\ UNCHANGED <<config_vars, earlier_runs, poisoned, executor_attrs, pool_vars, body_vars,
                   yielded, pending, run_outcome, callback_calls, bar_calls,
                   sink_vars, info_log, interrupts,
                   bulk_vars, adapter_vars>>

\* variant: the loop stops after its first future
Exhausted_AfterFirst == yielded # {} \/ Submitted = {}

\* as_completed stops once it has yielded every future of the dict
Exhausted == yielded = Submitted

\* as_completed is exhausted: the loop and the try block end
LoopEnds ==
    /\ LoopIdle
    /\ Exhausted
    /\ main_pc' = "exit"
    /\ UNCHANGED <<config_vars, earlier_runs, poisoned, executor_attrs, pool_vars, body_vars,
                   cur, yielded, pending, run_outcome, callback_vars, sink_vars,
                   info_log, interrupts,
                   bulk_vars, adapter_vars>>

\* variant: the except clause ends without raise
Reraise_Swallowed(caught) == NoException

\* the bare raise that ends the except clause: the exception caught is in
\* flight again
Reraise(caught) == caught

\* except KeyboardInterrupt: logging.info(...); self.poisoned = True; raise
\* (the assignment creates the attribute poisoned of the JobExecutor; the
\* PoisonPill the jobs hold is self.poison_pill)
ExceptKeyboardInterrupt ==
    /\ main_pc = "except"
    /\ info_log' = Append(info_log, "Finalizando...")
    /\ executor_attrs' = executor_attrs \cup {"poisoned"}
    /\ UNCHANGED poisoned
    /\ pending' = Reraise(pending)
    /\ main_pc' = "exit"
    /\ UNCHANGED <<config_vars, earlier_runs, pool_vars, body_vars, cur, yielded,
                   run_outcome, callback_vars, sink_vars, interrupts,
                   bulk_vars, adapter_vars>>

\* The user's interrupt reaches the calling thread. In the comprehension it
\* is outside the try block; in the loop it goes to the except clause, by
\* way of the finally clause when an iteration is under way; while the
\* with block is waiting for the workers it ends the wait.
KeyboardInterrupt ==
    /\ interrupts < MaxInterrupts
    /\ main_pc \in {"submit", "wait", "result", "in_callback", "finally",
                    "in_update_bar", "exit"}
    /\ interrupts' = interrupts + 1
    /\ pending' = "KeyboardInterrupt"
    /\ main_pc' = CASE main_pc = "submit" -> "exit"
                    [] main_pc = "wait" -> "except"
                    [] main_pc \in {"result", "in_callback"} -> "finally"
                    [] main_pc \in {"finally", "in_update_bar"} -> "except"
                    [] main_pc = "exit" -> "raised"
    /\ active_callbacks' = {}
    /\ \/ /\ main_pc = "in_callback"
          /\ CallbackEffect(CurrentCall)
       \/ UNCHANGED sink_vars
    /\ bar_calls' = bar_calls
    /\ run_outcome' = IF main_pc = "exit" THEN "KeyboardInterrupt" ELSE run_outcome
    /\ UNCHANGED <<config_vars, earlier_runs, poisoned, executor_attrs, pool_vars, body_vars,
                   cur, yielded, callback_calls, info_log, bulk_vars, adapter_vars>>

\* variant: the with block ends without waiting for the workers
PoolJoined_NoWait == TRUE

\* shutdown(wait=True) has joined the workers: they end once the queue is
\* empty and no job body is executing
PoolJoined == \A f \in Submitted : jstate[f] = "finished"

\* __exit__ of the with block: shutdown(wait=True) returns once every
\* submitted job has finished; run then returns or lets the exception out
ExecutorExit ==
    /\ main_pc = "exit"
    /\ PoolJoined
    /\ run_outcome' = IF pending = NoException THEN "returned" ELSE pending
    /\ main_pc' = IF pending = NoException THEN "returned" ELSE "raised"
    /\ UNCHANGED <<config_vars, earlier_runs, poisoned, executor_attrs, pool_vars, body_vars,
                   cur, yielded, pending, callback_vars, sink_vars, info_log,
                   interrupts, bulk_vars, adapter_vars>>


\* --------------------------------------- tail of process_documents_in_bulk
\* the orders in which the adapter may iterate the set of documents
Orderings(S) ==
    {s \in [1..Cardinality(S) -> S] : \A i, j \in DOMAIN s : s[i] = s[j] => i = j}

BulkEnds == {"OK", "IndexExporterHTTPError"}

\* variant: the bulk step runs whatever the fetch phase gave
BulkNeeded_Always == TRUE

\* if documents:
BulkNeeded == documents # {}

\* variant: the adapter is built over one of the documents
AdapterArticles_One == {CHOOSE d \in documents : TRUE}

\* the articles argument of the bulk adapter
AdapterArticles == documents

\* variant: the lines are written last element first
WriteLines_Reversed(array) ==
    [i \in DOMAIN array |-> JsonLine(array[Len(array) + 1 - i])]

\* for line in ret: fp.write(json.dumps(line) + "\n")
WriteLines(array) == [i \in DOMAIN array |-> JsonLine(array[i])]

\* post_response of the bulk adapter: zip(self.index_exporters, response)
\* gives one result per exporter the response array has an element for
BulkPostResponse(exporters, answered) ==
    [i \in 1..answered |-> [exporters[i] EXCEPT !.tag = "OK"]]

\* variant: output_path is opened with "w" before the bulk step runs
FileAfterFailedBulk_Truncated == <<>>

\* the with block that opens output_path comes after command_function: an
\* exception of the bulk step leaves the function before the file is opened
FileAfterFailedBulk == output_file

\* if documents: build the bulk adapter (its list in the set's iteration
\* order), run command_function and write its results to output_path
\* opened with "w"
BulkCommand ==
    /\ entry = "process_documents_in_bulk"
    /\ main_pc = "returned"
    /\ IF ~BulkNeeded
       THEN /\ main_pc' = "exited"
            /\ UNCHANGED <<output_file, pending, bulk_vars>>
       ELSE LET error == BulkAdapterInit(index, index_command, ConfiguredEnv,
                                         AdapterArticles)
                built(calls) == [index |-> index, command |-> index_command,
                                 articles |-> AdapterArticles,
                                 raised |-> error.class,
                                 command_function_calls |-> calls]
            IN  IF error # NoError
                THEN /\ articles_adapter' = Append(articles_adapter, built(0))
                     /\ main_pc' = "raised"
                     /\ pending' = error.class
                     /\ output_file' = FileAfterFailedBulk
                     /\ UNCHANGED <<bulk_requests, ret>>
                ELSE \E e \in BulkEnds, order \in Orderings(AdapterArticles),
                        answered \in 0..Cardinality(AdapterArticles) :
                       /\ articles_adapter' = Append(articles_adapter, built(1))
                       /\ bulk_requests' = bulk_requests + 1
                       /\ IF e = "OK"
                          THEN /\ ret' = BulkPostResponse(order, answered)
                               /\ output_file' = WriteLines(ret')
                               /\ main_pc' = "exited"
                               /\ UNCHANGED pending
                          ELSE /\ main_pc' = "raised"
                               /\ pending' = e
                               /\ output_file' = FileAfterFailedBulk
                               /\ UNCHANGED ret
    /\ UNCHANGED <<config_vars, earlier_runs, poisoned, executor_attrs, pool_vars, body_vars,
                   cur, yielded, run_outcome, callback_vars, output_dir,
                   error_log, documents, info_log, interrupts, adapter_vars>>

\* -------------------------------------------------------------------- Next
Next ==
    \/ Submit
    \/ AsCompleted
    \/ \E f \in Futures : StartJob(f)
    \/ \E f \in Futures : GetDocument(f)
    \/ \E f \in Futures : CommandFunction(f)
    \/ \E f \in Futures : NextCompleted(f)
    \/ CallOutcomeCallback
    \/ CallbackReturns
    \/ CallbackRaises
    \/ UpdateBar
    \/ UpdateBarReturns
    \/ LoopEnds
    \/ ExceptKeyboardInterrupt
    \/ KeyboardInterrupt
    \/ ExecutorExit
    \/ BulkCommand
    \/ CallJobFunction
    \/ JobFunctionEnds

Spec == Init /\ [][Next]_vars


\* ================================================== the adapters on their own
\* XyloseArticleExporterAdapter and XyloseArticlesListExporterAdapter built
\* and run by a caller of their own, outside the pipeline.
AdapterClasses == {"XyloseArticleExporterAdapter", "XyloseArticlesListExporterAdapter"}
Indexes == {"doaj", "scielo"}
CommandNames == {"export", "update", "get", "delete", "put"}

\* DOAJ_API_KEY set; not set; DOAJ_API_URL overridden by an empty value
Environs == {ConfiguredEnv,
             [ConfiguredEnv EXCEPT !.DOAJ_API_KEY = ""],
             [ConfiguredEnv EXCEPT !.DOAJ_API_URL = ""]}

\* article.data: the pid and, for an article the index already holds,
\* doaj_id; and what the payload is built from: original_abstract(),
\* document_type, keywords() in the original language, fulltexts()
Articles == {[code |-> Pids[1], doaj_id |-> "doaj-1", abstract |-> "Abstract 1",
              document_type |-> "research-article", keywords |-> <<"kw 1">>,
              fulltexts |-> <<"http://html/1">>],
             [code |-> Pids[2], doaj_id |-> "", abstract |-> "",
              document_type |-> "", keywords |-> <<>>, fulltexts |-> <<>>],
             [code |-> Pids[3], doaj_id |-> "doaj-3", abstract |-> "",
              document_type |-> "editorial", keywords |-> <<>>,
              fulltexts |-> <<"http://html/3", "http://pdf/3">>]}

\* the clock when the module doaj was imported
ImportTime == 0

IsBulk == adapter_input.class = "XyloseArticlesListExporterAdapter"

\* the articles argument: one article, or a set of at most MaxArticles
ArticleArguments(class) ==
    IF class = "XyloseArticleExporterAdapter"
    THEN {{a} : a \in Articles}
    ELSE {S \in SUBSET Articles : Cardinality(S) <= MaxArticles}

\* the pipeline is not running
PipelineIdle ==
    /\ entry = "adapter"
    /\ func = "none"
    /\ max_workers = 1
    /\ jobs = <<>>
    /\ index = "" /\ index_command = ""
    /\ is_dir = FALSE
    /\ initial_file = NoFile /\ output_file = NoFile
    /\ initial_dir = NoFiles
    /\ poisoned = [p \in PillIds |-> FALSE]
    /\ main_pc = "idle"
    /\ InitCommon

InitAdapters ==
    /\ PipelineIdle
    /\ \E class \in AdapterClasses, idx \in Indexes, command \in CommandNames :
         \E articles \in ArticleArguments(class) :
            adapter_input = [class |-> class, index |-> idx, command |-> command,
                             articles |-> articles]
    /\ environ \in Environs
    /\ adapter_pc = "new"
    /\ index_exporters = <<>>
    /\ request = NoRequest
    /\ attempts = 0
    /\ http_log = <<>>
    /\ outcomes = <<>>
    /\ response = NoResponse
    /\ raised_exception = NoError
    /\ command_result = NoResult
    /\ clock = ImportTime
    /\ invocations = 0

\* what __init__ of the adapter's class raises for the arguments given
InitRaises ==
    IF IsBulk
    THEN BulkAdapterInit(adapter_input.index, adapter_input.command, environ,
                         adapter_input.articles)
    ELSE AdapterInit(adapter_input.index, adapter_input.command, environ)

\* the constructor call: it raises, or leaves an adapter whose exporters
\* are in the order the articles were iterated in
Construct ==
    /\ adapter_pc = "new"
    /\ IF InitRaises = NoError
       THEN /\ \E order \in Orderings(adapter_input.articles) :
                 index_exporters' = [i \in DOMAIN order |->
                     [pid |-> order[i].code, index_exporter |-> order[i]]]
            /\ adapter_pc' = "built"
            /\ UNCHANGED raised_exception
       ELSE /\ raised_exception' = InitRaises
            /\ adapter_pc' = "init_raised"
            /\ UNCHANGED index_exporters
    /\ UNCHANGED <<adapter_input, environ, request, attempts, http_log, outcomes,
                   response, command_result, clock, invocations, pipeline_vars>>

\* ------------------------------------------------------ command_function
\* status codes of the responses the index may give
Statuses == {200, 304, 400, 404, 500}

\* the "error" member of a response body: absent or empty, or a text
ErrorDetails == {<<>>, <<"wrong field.">>}

\* exceptions of requests that _send_http_request is retried on
RetriedExceptions == {"ConnectionError", "Timeout"}

\* what one attempt can raise
TransportExceptions == RetriedExceptions \cup {"TooManyRedirects"}

Command == adapter_input.command
Exporter(i) == index_exporters[i].index_exporter

\* DOAJExporterXyloseArticle: crud_article_put_url, crud_article_url,
\* bulk_articles_url, params_request
CrudArticlePutUrl == <<environ.DOAJ_API_URL, "articles">>
CrudArticleUrl(article) == <<environ.DOAJ_API_URL, "articles/", article.doaj_id>>
BulkArticlesUrl == <<environ.DOAJ_API_URL, "bulk/articles">>
ParamsRequest == <<"api_key", environ.DOAJ_API_KEY>>

\* JSON objects are functions of their member names; a JSON body is a
\* sequence: of one object, of the elements of an array, or empty
Get(obj, key, default) == IF key \in DOMAIN obj THEN obj[key] ELSE default
Put(obj, key, value) ==
    [k \in DOMAIN obj \cup {key} |-> IF k = key THEN value ELSE obj[k]]
EmptyObject == [k \in {} |-> <<>>]

\* utils.utcnow(): the clock as str(datetime.utcnow().isoformat() + "Z")
Isoformat(t) == <<"2021-08-01T10:00:0", t, "Z">>
UtcNow == Isoformat(clock)

\* self._now: the adapters build DOAJExporterXyloseArticle(article) without
\* now, so it is the default of "now: callable = utils.utcnow()", a string
\* made once, when the def statement ran at the import of the module
Now == Isoformat(ImportTime)

\* article.authors and fulltexts() as the entries the payload gets
Authors(article) == << <<"author of", article.code>> >>
Links(article) ==
    [i \in DOMAIN article.fulltexts |-> <<"fulltext", article.fulltexts[i]>>]

\* variant: the list is assigned from the Document
Appended_Replaced(bibjson, key, entries) == entries

\* self._data["bibjson"].setdefault(key, []) and one append per entry: the
\* list bibjson holds already, followed by the entries
Appended(bibjson, key, entries) == Get(bibjson, key, <<>>) \o entries

\* the _set_bibjson_* calls of post_request and put_request, for a Document
\* that passes their validations: abstract and keywords set when the
\* Document has them, author and link appended to what bibjson holds,
\* identifier, journal, title, month and year assigned
SetBibjson(article, bibjson) ==
    LET abstract == IF article.abstract # ""
                    THEN Put(bibjson, "abstract", <<article.abstract>>) ELSE bibjson
        author == Put(abstract, "author",
                      Appended(abstract, "author", Authors(article)))
        identifier == Put(author, "identifier", <<"issn of", article.code>>)
        journal == Put(identifier, "journal", <<"journal of", article.code>>)
        keywords == IF article.keywords # <<>>
                    THEN Put(journal, "keywords", article.keywords) ELSE journal
        link == IF article.fulltexts # <<>>
                THEN Put(keywords, "link",
                         Appended(keywords, "link", Links(article)))
                ELSE keywords
        title == Put(link, "title", <<"title of", article.code>>)
        month == Put(title, "month", <<"month of", article.code>>)
    IN  Put(month, "year", <<"year of", article.code>>)

\* _set_es_type
SetEsType(article, data) ==
    IF article.document_type # ""
    THEN Put(data, "es_type", <<article.document_type>>) ELSE data

\* self._data after __init__: the id when article.data has a doaj_id
InitialData(article) ==
    IF article.doaj_id # "" THEN [id |-> <<article.doaj_id>>] ELSE EmptyObject

\* DOAJExporterXyloseArticle.post_request, evaluated with self._data = data:
\* the property works on self._data in place and returns it
PostRequestFrom(article, data) ==
    LET dated == Put(Put(data, "created_date", Now), "last_updated", Now)
        bibjson == Put(dated, "bibjson",
                       SetBibjson(article, Get(dated, "bibjson", EmptyObject)))
    IN  SetEsType(article, bibjson)

\* post_request of an exporter that has built no payload yet
PostRequest(article) == PostRequestFrom(article, InitialData(article))

\* DOAJExporterXyloseArticle.put_request(data)
PutRequest(article, data) ==
    LET dated == Put(data, "last_updated", Now)
        bibjson == Put(dated, "bibjson",
                       SetBibjson(article, Get(dated, "bibjson", EmptyObject)))
    IN  SetEsType(article, bibjson)

\* DOAJExporterXyloseArticle.id: None when there is no doaj_id
ExporterId(article) == IF article.doaj_id = "" THEN "None" ELSE article.doaj_id

\* DOAJExporterXyloseArticle.post_response(response)
PostResponse(obj) ==
    [index_id |-> Get(obj, "id", <<"None">>), status |-> Get(obj, "status", "None")]

NoDoajId == [class |-> "DOAJExporterXyloseArticleNoRequestData",
             message |-> <<"No DOAJ ID for article">>]
PayloadError == [class |-> "DOAJExporterXyloseArticleNoAuthorsException",
                 message |-> <<>>]

\* self._data of the i-th exporter of an export adapter: what __init__
\* left, or the payload its last post_request built and returned, which
\* is the i-th element of the JSON of the last request sent
ExporterData(i) ==
    IF http_log = <<>> THEN InitialData(Exporter(i))
    ELSE http_log[Len(http_log)].json[i]

\* the request a command starts with, or the exception raised on the way
\* to it (an article without doaj_id has no crud_article_url)
FirstRequest ==
    IF IsBulk
    THEN IF Command = "export"
         THEN [method |-> "POST", url |-> BulkArticlesUrl, params |-> ParamsRequest,
               json |-> [i \in DOMAIN index_exporters |->
                            PostRequestFrom(Exporter(i), ExporterData(i))]]
         ELSE [method |-> "DELETE", url |-> BulkArticlesUrl, params |-> ParamsRequest,
               json |-> [i \in DOMAIN index_exporters |-> ExporterId(Exporter(i))]]
    ELSE IF Command = "export"
         THEN [method |-> "POST", url |-> CrudArticlePutUrl, params |-> ParamsRequest,
               json |-> <<PostRequestFrom(Exporter(1), ExporterData(1))>>]
         ELSE [method |-> IF Command = "delete" THEN "DELETE" ELSE "GET",
               url |-> CrudArticleUrl(Exporter(1)), params |-> ParamsRequest,
               json |-> <<>>]

\* command_function(): the command builds its first request and hands it
\* to _send_http_request, or raises before any request
CommandFunctionCalled ==
    /\ invocations' = invocations + 1
    /\ IF ~IsBulk /\ Command # "export" /\ Exporter(1).doaj_id = ""
       THEN /\ raised_exception' = NoDoajId
            /\ adapter_pc' = "raised"
            /\ UNCHANGED <<request, attempts>>
       ELSE \E valid \in (IF Command = "export" THEN BOOLEAN ELSE {TRUE}) :
              IF valid
              THEN /\ request' = FirstRequest
                   /\ attempts' = 0
                   /\ adapter_pc' = "sending"
                   /\ raised_exception' = NoError
              ELSE /\ raised_exception' = PayloadError
                   /\ adapter_pc' = "raised"
                   /\ UNCHANGED <<request, attempts>>
    /\ UNCHANGED <<adapter_input, environ, index_exporters, http_log, outcomes,
                   response, clock, pipeline_vars>>

\* the caller's first command_function() on the adapter it has built
CallCommandFunction ==
    /\ adapter_pc = "built"
    /\ CommandFunctionCalled
    /\ UNCHANGED command_result

\* the calls made so far had no transient failure: every attempt got a
\* response
NoTransientFailure ==
    \A k \in DOMAIN outcomes : outcomes[k].exception = NoException

\* variant: the adapter answers a repeated call with what the call before
\* it returned or raised
CallCommandFunctionAgain_Cached ==
    /\ adapter_pc \in {"returned", "raised"}
    /\ raised_exception # PayloadError
    /\ NoTransientFailure
    /\ invocations < MaxInvocations
    /\ invocations' = invocations + 1
    /\ UNCHANGED <<adapter_input, environ, adapter_pc, index_exporters, request,
                   attempts, http_log, outcomes, response, raised_exception,
                   command_result, clock, pipeline_vars>>

\* The caller calls command_function() again on the same adapter, after a
\* call that returned or that was answered with an error status (a call
\* that failed while its payload was being built, or that met a transport
\* failure, is not followed further). command_function only forwards to
\* the bound method: the command runs again.
CallCommandFunctionAgain ==
    /\ adapter_pc \in {"returned", "raised"}
    /\ raised_exception # PayloadError
    /\ NoTransientFailure
    /\ invocations < MaxInvocations
    /\ CommandFunctionCalled
    /\ command_result' = NoResult

\* ---------------------------------------------------------- the index
OldDate == <<"2020-01-01T00:00:00Z">>

\* the representation the index holds of the article with a doaj_id: what
\* an earlier export of the Document left, and members of the index's own
StoredArticle(id) ==
    LET article == CHOOSE a \in Articles : a.doaj_id = id
    IN  [id |-> <<id>>, created_date |-> OldDate, last_updated |-> OldDate,
         admin |-> <<"in_doaj">>,
         bibjson |-> [abstract |-> <<"Old abstract">>, author |-> Authors(article),
                      link |-> Links(article), subject |-> <<"LCC">>,
                      title |-> <<"Old title">>]]

\* what the index answers a created article with
Created(payload) ==
    [id |-> <<"id for">> \o payload.bibjson.title, status |-> "created"]

IsSuccess(status) == 200 <= status /\ status < 300

\* the JSON bodies of the 2xx responses to a request: for a GET the stored
\* article or its id alone; for the POST of one article its new id and
\* status, or the status alone; for the bulk POST an array that answers the
\* payloads in their order, and may be shorter or longer than what was
\* posted; for the bulk DELETE an empty array or an object; for PUT and
\* the DELETE of one article an empty array
SuccessBodies(req) ==
    CASE req.method = "GET" ->
            {<<StoredArticle(req.url[3])>>, <<[id |-> <<req.url[3]>>]>>}
      [] req.method = "POST" /\ ~IsBulk ->
            {<<Created(req.json[1])>>, <<[status |-> "created"]>>}
      [] req.method = "POST" /\ IsBulk ->
            {[i \in 1..n |-> IF i <= Len(req.json) THEN Created(req.json[i])
                              ELSE [id |-> <<"id for", "nothing">>,
                                    status |-> "created"]] :
                 n \in 0..(Len(req.json) + 1)}
      [] req.method = "DELETE" /\ IsBulk -> {<<>>, <<[status |-> "partial"]>>}
      [] OTHER -> {<<>>}

\* the responses with a status: 2xx with one of the bodies above, 4xx and
\* 5xx with a JSON body that may hold an "error" member, 304 with no body
Responses(req, status) ==
    IF IsSuccess(status)
    THEN {[status_code |-> status, error |-> <<>>, has_body |-> TRUE, body |-> b] :
              b \in SuccessBodies(req)}
    ELSE IF status >= 400
    THEN {[status_code |-> status, error |-> d, has_body |-> TRUE,
           body |-> <<IF d = <<>> THEN [status |-> "error"]
                      ELSE [status |-> "error", error |-> d]>>] :
              d \in ErrorDetails}
    ELSE {[status_code |-> status, error |-> <<>>, has_body |-> FALSE, body |-> <<>>]}

\* variant: the send is tried again whatever the attempt raised
MayRetry_AnyException(exc) == attempts + 1 < EXPORT_RUN_RETRIES

\* tenacity: retry_if_exception_type((ConnectionError, Timeout)),
\* stop_after_attempt(EXPORT_RUN_RETRIES)
MayRetry(exc) == exc \in RetriedExceptions /\ attempts + 1 < EXPORT_RUN_RETRIES

\* one attempt of _send_http_request: request_method(url=url, **kwargs)
\* gives a response or raises
Attempt ==
    /\ adapter_pc = "sending"
    /\ attempts' = attempts + 1
    /\ http_log' = Append(http_log, request)
    /\ clock' = clock + 1
    /\ \/ \E status \in Statuses : \E resp \in Responses(request, status) :
            /\ response' = resp
            /\ outcomes' = Append(outcomes, [status_code |-> status,
                                             exception |-> NoException])
            /\ adapter_pc' = "responded"
            /\ UNCHANGED raised_exception
       \/ \E exc \in TransportExceptions :
            /\ outcomes' = Append(outcomes, [status_code |-> 0, exception |-> exc])
            /\ IF MayRetry(exc)
               THEN /\ adapter_pc' = "sending"
                    /\ UNCHANGED raised_exception
               ELSE /\ adapter_pc' = "raised"
                    /\ raised_exception' =
                          [class |-> IF exc \in RetriedExceptions THEN "RetryError" ELSE exc,
                           message |-> <<exc>>]
            /\ UNCHANGED response
    /\ UNCHANGED <<adapter_input, environ, index_exporters, request,
                   command_result, invocations, pipeline_vars>>

\* variant: only the server's errors are raised
RaisesForStatus_ServerErrorsOnly(status) == 500 <= status /\ status < 600

\* Response.raise_for_status() raises HTTPError for 4xx and 5xx
RaisesForStatus(status) == 400 <= status /\ status < 600

\* str() of that HTTPError
HTTPError(status) == <<status, " Error">>

\* error_response = ""; if resp.status_code == 400:
\*     error_response = " " + self.error_response(resp.json())
ErrorResponse(resp) == IF resp.status_code = 400 THEN <<" ">> \o resp.error ELSE <<>>

IndexExporterHTTPError(message) ==
    [class |-> "IndexExporterHTTPError", message |-> message]

\* the except HTTPError branch of the command whose request got resp
HTTPErrorRaised(resp) ==
    LET idx == adapter_input.index
        exc == HTTPError(resp.status_code)
    IN  IF Command = "export"
        THEN IndexExporterHTTPError(
                 <<"Erro na exportação ao ", idx, ": ">> \o exc \o <<".">>
                 \o ErrorResponse(resp))
        ELSE IF IsBulk
        THEN IndexExporterHTTPError(
                 <<"Erro ao deletar no ", idx, ": ">> \o exc \o <<".", " ">>
                 \o resp.error)
        ELSE IF request.method = "PUT"
        THEN IndexExporterHTTPError(
                 <<"Erro ao atualizar o ", idx, ": ">> \o exc \o <<".">>
                 \o ErrorResponse(resp))
        ELSE IF Command = "delete"
        THEN IndexExporterHTTPError(
                 <<"Erro ao deletar no ", idx, ": ">> \o exc \o <<".">>)
        ELSE IndexExporterHTTPError(
                 <<"Erro na consulta ao ", idx, ": ">> \o exc \o <<".">>)

\* the else branches that call resp.json(): export, get, the GET of update
ReadsBody == Command = "export" \/ request.method = "GET"

\* resp.json() of a response that has no JSON body
JSONDecodeError == [class |-> "JSONDecodeError", message |-> <<>>]

\* variant: the adapter forgets the pid of its article
AdapterPid_Empty == ""

\* self._pid = article.data.get("code", "")
AdapterPid == Exporter(1).code

\* variant: an answer shorter than the list of exporters gives no result
ZipLength_AllOrNothing(array) ==
    IF Len(array) < Len(index_exporters) THEN 0 ELSE Len(index_exporters)

\* zip(self.index_exporters, response) stops at the shorter of the two
ZipLength(array) ==
    IF Len(array) < Len(index_exporters) THEN Len(array)
    ELSE Len(index_exporters)

\* variant: the results are tagged with the pids in reverse order
ListPostResponse_Reversed(array) ==
    LET n == ZipLength(array)
    IN  [i \in 1..n |-> Put(PostResponse(array[i]), "pid",
                             index_exporters[Len(index_exporters) + 1 - i].pid)]

\* XyloseArticlesListExporterAdapter.post_response: zip of the exporters
\* and the elements of the response
ListPostResponse(array) ==
    LET n == ZipLength(array)
    IN  [i \in 1..n |-> Put(PostResponse(array[i]), "pid", index_exporters[i].pid)]

\* variant: one result for each element of the response body
ListDeleteResult_FromBody ==
    [i \in DOMAIN response.body |->
        [pid |-> index_exporters[i].pid, status |-> "DELETED"]]

\* delete_result of the bulk _delete
ListDeleteResult ==
    [i \in DOMAIN index_exporters |->
        [pid |-> index_exporters[i].pid, status |-> "DELETED"]]

\* the else branch of the command: what it returns for resp (the mapping
\* of a single-document command as a sequence of one element)
CommandReturns(resp) ==
    IF IsBulk
    THEN IF Command = "export" THEN ListPostResponse(resp.body)
         ELSE ListDeleteResult
    ELSE CASE Command = "export" ->
                <<Put(PostResponse(resp.body[1]), "pid", AdapterPid)>>
           [] Command = "update" -> <<[pid |-> AdapterPid, status |-> "UPDATED"]>>
           [] Command = "get" -> <<Put(resp.body[1], "pid", AdapterPid)>>
           [] OTHER -> <<[pid |-> AdapterPid, status |-> "DELETED"]>>

\* resp.raise_for_status() and what the command does next: raise
\* IndexExporterHTTPError, send the PUT of update, or return
HandleResponse ==
    /\ adapter_pc = "responded"
    /\ IF RaisesForStatus(response.status_code)
       THEN /\ raised_exception' = HTTPErrorRaised(response)
            /\ adapter_pc' = "raised"
            /\ UNCHANGED <<request, attempts, command_result>>
       ELSE IF ReadsBody /\ ~response.has_body
       THEN /\ raised_exception' = JSONDecodeError
            /\ adapter_pc' = "raised"
            /\ UNCHANGED <<request, attempts, command_result>>
       ELSE IF Command = "update" /\ request.method = "GET"
       THEN \E valid \in BOOLEAN :
              IF valid
              THEN /\ request' = [method |-> "PUT",
                                  url |-> CrudArticleUrl(Exporter(1)),
                                  params |-> ParamsRequest,
                                  json |-> <<PutRequest(Exporter(1), response.body[1])>>]
                   /\ attempts' = 0
                   /\ adapter_pc' = "sending"
                   /\ UNCHANGED <<raised_exception, command_result>>
              ELSE /\ raised_exception' = PayloadError
                   /\ adapter_pc' = "raised"
                   /\ UNCHANGED <<request, attempts, command_result>>
       ELSE /\ command_result' = CommandReturns(response)
            /\ adapter_pc' = "returned"
            /\ UNCHANGED <<request, attempts, raised_exception>>
    /\ UNCHANGED <<adapter_input, environ, index_exporters, http_log, outcomes,
                   response, clock, invocations, pipeline_vars>>

NextAdapters ==
    \/ Construct
    \/ CallCommandFunction
    \/ Attempt
    \/ HandleResponse

SpecAdapters == InitAdapters /\ [][NextAdapters]_vars

\* ================================================= an adapter called again
\* The caller of an adapter keeps it and calls command_function() on it
\* up to MaxInvocations times.
NextAdaptersReused ==
    \/ NextAdapters
    \/ CallCommandFunctionAgain

SpecAdaptersReused == InitAdapters /\ [][NextAdaptersReused]_vars

\* ============================================ JobExecutor.run under fairness
\* A JobExecutor run by a caller of its own, with threads that are
\* scheduled: the main thread and the workers go on while they have a
\* step to take, job bodies and callbacks end. The interrupt and an
\* exception of a callback are events of the environment: they may
\* happen, nothing makes them happen.
InitExecutorAlone ==
    /\ InitExecutor
    /\ InitCommon
    /\ AdaptersIdle

ProgramStep ==
    \/ Submit
    \/ AsCompleted
    \/ \E f \in Futures : StartJob(f)
    \/ \E f \in Futures : GetDocument(f)
    \/ \E f \in Futures : NextCompleted(f)
    \/ CallOutcomeCallback
    \/ CallbackReturns
    \/ UpdateBar
    \/ UpdateBarReturns
    \/ LoopEnds
    \/ ExceptKeyboardInterrupt
    \/ ExecutorExit

NextExecutor ==
    \/ ProgramStep
    \/ CallbackRaises
    \/ KeyboardInterrupt

SpecExecutorFair ==
    InitExecutorAlone /\ [][NextExecutor]_vars /\ WF_vars(ProgramStep)

\* ============================================== a JobExecutor run again
\* the pills the jobs of the run under way have been called with
PillsHandedOut == {call_args[f].poison_pill : f \in {g \in Submitted : call_args[g] # NoArgs}}

\* The caller calls run(jobs) again on the executor whose run has
\* returned: a new pool, a new dict of futures and a new loop; the
\* attributes __init__ set, poison_pill among them, are those of the
\* executor.
RunAgain ==
    /\ entry = "JobExecutor"
    /\ main_pc = "returned"
    /\ Len(earlier_runs) + 1 < MaxRuns
    /\ earlier_runs' = Append(earlier_runs, PillsHandedOut)
    /\ futures' = <<>>
    /\ work_queue' = <<>>
    /\ num_threads' = 0
    /\ jstate' = [f \in Futures |-> "unsubmitted"]
    /\ call_args' = [f \in Futures |-> NoArgs]
    /\ outcome' = [f \in Futures |-> NotFinished]
    /\ fetch_calls' = [f \in Futures |-> 0]
    /\ cur' = NoFuture
    /\ yielded' = {}
    /\ run_outcome' = "running"
    /\ callback_calls' = [f \in Futures |-> <<>>]
    /\ bar_calls' = [f \in Futures |-> 0]
    /\ main_pc' = "submit"
    /\ UNCHANGED <<config_vars, poisoned, executor_attrs, adapter_calls, pending,
                   active_callbacks, sink_vars, info_log, interrupts, bulk_vars,
                   adapter_vars>>

NextExecutorRerun ==
    \/ NextExecutor
    \/ RunAgain

SpecExecutorRerun == InitExecutorAlone /\ [][NextExecutorRerun]_vars

\* ================================================================= claims
Lines(file) == IF file = NoFile THEN <<>> ELSE file

Ended == main_pc \in {"returned", "raised", "exited"}

CallsOf(callback) ==
    {f \in Futures : \E i \in DOMAIN callback_calls[f] :
                        callback_calls[f][i].callback = callback}

TerminalCalls == SeqSum([f \in Futures |-> Len(callback_calls[f])])
BarCalls == SeqSum([f \in Futures |-> bar_calls[f]])

\* C1: when JobExecutor.run returns normally, every job of the list has had
\* exactly one terminal callback (success or exception, never both, never
\* twice) and exactly one update_bar after it, so terminal calls and
\* update_bar calls both total the length of the list (zero for an empty
\* list); update_bar never precedes the terminal callback of its job.
C1_OneCallbackAndOneTickPerJob ==
    /\ run_outcome = "returned" =>
          /\ \A f \in Futures : Len(callback_calls[f]) = 1 /\ bar_calls[f] = 1
          /\ CallsOf("success_callback") \cap CallsOf("exception_callback") = {}
          /\ TerminalCalls = Len(jobs)
          /\ BarCalls = Len(jobs)
    /\ interrupts = 0 =>
          \A f \in Futures : bar_calls[f] <= Len(callback_calls[f])
    /\ (entry # "job_function" /\ jobs = <<>> /\ Ended /\ interrupts = 0) =>
          run_outcome = "returned" /\ TerminalCalls = 0 /\ BarCalls = 0

C1_Witness ==
    /\ run_outcome = "returned"
    /\ Len(jobs) = NJobs
    /\ CallsOf("success_callback") # {}
    /\ CallsOf("exception_callback") # {}

\* C2: every exception_callback call carries the exception instance raised
\* by that very job body and the argument mapping the body was invoked
\* with, and a job that raised never gets a success_callback call; every
\* success_callback call carries the value its job body returned and that
\* job's argument mapping.
C2_CallbackGetsOutcomeAndJob ==
    \A f \in Futures : \A i \in DOMAIN callback_calls[f] :
        LET call == callback_calls[f][i]
        IN  /\ call.payload = outcome[f]
            /\ call.payload.origin = f
            /\ call.job = call_args[f].job
            /\ call.job = jobs[f]
            /\ outcome[f].kind = "raised" <=> call.callback = "exception_callback"
            /\ outcome[f].kind = "returned" <=> call.callback = "success_callback"

C2_Witness ==
    \E f, g \in Futures :
        /\ f # g
        /\ callback_calls[f] # <<>> /\ callback_calls[f][1].callback = "exception_callback"
        /\ callback_calls[g] # <<>> /\ callback_calls[g][1].callback = "success_callback"

\* C3: exceptions raised by job bodies never abort the run: with no
\* interrupt and no failing callback, whatever subset of the jobs raises,
\* run returns normally after every job has been executed and has had its
\* terminal callback and its update_bar.
C3_RaisingJobsDoNotAbortSiblings ==
    (entry # "job_function" /\ Ended /\ interrupts = 0 /\ pending # "OSError") =>
        /\ run_outcome = "returned"
        /\ \A f \in Futures :
              /\ jstate[f] = "finished"
              /\ call_args[f] # NoArgs
              /\ Len(callback_calls[f]) = 1
              /\ bar_calls[f] = 1

C3_Witness ==
    /\ run_outcome = "returned"
    /\ Len(jobs) = NJobs
    /\ outcome[1].kind = "raised"
    /\ \E f \in Futures : outcome[f].kind = "returned" /\ outcome[f].tag # "None"
    /\ \A f \in Futures : Len(callback_calls[f]) = 1

InterruptHandled == info_log # <<>>

\* C4: once run has handled a KeyboardInterrupt, the PoisonPill passed to
\* the jobs is poisoned, and every job body a worker starts from then on
\* returns None without get_document and without building an adapter.
C4_InterruptPoisonsThePill ==
    /\ [](InterruptHandled => poisoned["executor"])
    /\ [][\A f \in Futures :
             (InterruptHandled /\ jstate[f] = "queued" /\ jstate'[f] # "queued") =>
                 /\ jstate'[f] = "finished"
                 /\ outcome'[f].tag = "None"
                 /\ fetch_calls'[f] = 0 /\ adapter_calls'[f] = 0]_vars

\* C5: a KeyboardInterrupt received in the as_completed loop is logged and
\* re-raised: run, and the orchestration function that called it, end by
\* letting KeyboardInterrupt out and never return normally.
C5_InterruptIsReraised ==
    /\ (InterruptHandled /\ main_pc # "except") => pending = "KeyboardInterrupt"
    /\ (InterruptHandled /\ Ended) =>
          main_pc = "raised" /\ run_outcome = "KeyboardInterrupt"

C5_Witness ==
    /\ InterruptHandled
    /\ main_pc = "raised"
    /\ entry = "process_documents_in_bulk"
    /\ \E f \in Futures : callback_calls[f] # <<>>

\* C6: a job function invoked with a poisoned pill returns None without
\* calling get_document, without building an adapter and without any HTTP
\* request; this holds for process_document and for execute_get_document.
C6_PoisonedPillShortCircuits ==
    \A f \in Futures :
        (call_args[f] # NoArgs /\ poisoned[call_args[f].poison_pill]) =>
            /\ jstate[f] = "finished"
            /\ outcome[f] = Returned("None", "", f)
            /\ fetch_calls[f] = 0
            /\ adapter_calls[f] = 0

C6_Witness ==
    /\ entry = "job_function"
    /\ func = "process_document"
    /\ call_args[1] # NoArgs
    /\ poisoned[call_args[1].poison_pill]
    /\ main_pc = "exited"

\* C7: at most one callback invocation (success_callback,
\* exception_callback or update_bar) is running at any time.
C7_CallbacksAreSerialized == Cardinality(active_callbacks) <= 1

C7_Witness ==
    /\ \E c \in active_callbacks : c.callback = "success_callback"
    /\ \E f \in Futures \ yielded : jstate[f] = "finished"
    /\ Running # {}

InLoop == main_pc \in {"wait", "result", "in_callback", "finally",
                       "in_update_bar", "except"}

\* C8: run submits the whole job list before it waits for any result, at
\* most max_workers job bodies execute at any time (max_workers is 4 in
\* both orchestration functions), and every job body is invoked with its
\* own argument mapping and the executor's PoisonPill.
C8_BoundedPoolAndArguments ==
    /\ InLoop => Len(futures) = Len(jobs)
    /\ \A f \in Submitted : futures[f] = jobs[f]
    /\ Cardinality(Running) <= max_workers
    /\ entry \in {"process_extracted_documents", "process_documents_in_bulk"} =>
          max_workers = 4
    /\ entry # "job_function" =>
          \A f \in Futures : call_args[f] # NoArgs =>
              call_args[f] = [job |-> jobs[f], poison_pill |-> "executor"]

C8_Witness ==
    /\ Cardinality(Running) = max_workers
    /\ work_queue # <<>>
    /\ InLoop

\* C9: the flag of the executor's PoisonPill starts not poisoned, and no
\* step ever takes a PoisonPill from poisoned back to not poisoned.
C9_PoisonedIsMonotonic ==
    /\ ~poisoned["executor"]
    /\ [][\A p \in PillIds : poisoned[p] => poisoned'[p]]_vars

C9_Witness ==
    /\ entry = "job_function"
    /\ \E p \in PillIds : poisoned[p] /\ call_args[1].poison_pill = p
    /\ func = "execute_get_document"
    /\ main_pc = "exited"

Succeeded == {f \in Futures : outcome[f].kind = "returned"}
Failed == {f \in Futures : outcome[f].kind = "raised"}

NewLines == SubSeq(Lines(output_file), Len(Lines(initial_file)) + 1,
                   Len(Lines(output_file)))

\* C10: when process_extracted_documents returns and output_path is not a
\* directory, the file has gained exactly one line per job that succeeded,
\* that line being the job's result with the job's pid, and no line for a
\* job that failed; every failed job has exactly one error record naming
\* its pid. The order of the lines is free.
C10_OneLinePerSucceededJob ==
    (entry = "process_extracted_documents" /\ ~is_dir /\ main_pc = "returned") =>
        /\ Len(NewLines) = Cardinality(Succeeded)
        /\ \A f \in Succeeded : \E i \in DOMAIN NewLines :
              NewLines[i] = <<"{", "pid", jobs[f].pid, "status", "OK", "}", "\n">>
        /\ \A f \in Failed : \A i \in DOMAIN NewLines : jobs[f].pid \notin Range(NewLines[i])
        /\ BagCardinality(error_log) = Cardinality(Failed)
        /\ \A f \in Failed :
              CopiesIn([pid |-> jobs[f].pid, exception |-> outcome[f]], error_log) = 1

C10_Witness ==
    /\ entry = "process_extracted_documents" /\ ~is_dir /\ main_pc = "returned"
    /\ Len(jobs) = 3
    /\ outcome[2].tag = "Exception"
    /\ Succeeded = {1, 3}
    /\ Len(NewLines) = 2
    /\ BagCardinality(error_log) = 1
    /\ \E e \in BagToSet(error_log) : e.pid = jobs[2].pid
    /\ TerminalCalls = 3

\* lines a prefix of the file: the file still begins with them, unchanged
IsPrefix(old, file) == Len(old) <= Len(file) /\ SubSeq(file, 1, Len(old)) = old

\* C11: a single (non-directory) output file is only ever appended to, by
\* process_extracted_documents and by process_documents_in_bulk alike:
\* every line the file held before the run is still there, unchanged and
\* in place, and whatever the run wrote comes after it.
C11_OutputFileIsAppended ==
    (entry \in {"process_extracted_documents", "process_documents_in_bulk"} /\ ~is_dir) =>
        IsPrefix(Lines(initial_file), Lines(output_file))

FileOf(f) == FileName(jobs[f].pid)

\* C12: when process_extracted_documents returns and output_path is a
\* directory, every job that succeeded has left the file <pid>.json holding
\* exactly its result, whatever the file held before; the file of a job that
\* failed is as it was (absent if it was absent), as is every other file of
\* the directory and the single-file output.
C12_OneFilePerSucceededPid ==
    (entry = "process_extracted_documents" /\ is_dir /\ main_pc = "returned") =>
        /\ \A f \in Succeeded :
              /\ <<jobs[f].pid, ".json">> \in DOMAIN output_dir
              /\ output_dir[<<jobs[f].pid, ".json">>] =
                     <<"{", "pid", jobs[f].pid, "status", outcome[f].tag, "}">>
        /\ DOMAIN output_dir =
              DOMAIN initial_dir \cup {<<jobs[f].pid, ".json">> : f \in Succeeded}
        /\ \A name \in DOMAIN output_dir :
              name \notin {<<jobs[f].pid, ".json">> : f \in Succeeded} =>
                  /\ name \in DOMAIN initial_dir
                  /\ output_dir[name] = initial_dir[name]
        /\ output_file = initial_file

C12_Witness ==
    /\ entry = "process_extracted_documents" /\ is_dir /\ main_pc = "returned"
    /\ Len(jobs) = 3
    /\ Succeeded = {1, 2}
    /\ Failed = {3}
    /\ FileOf(1) \in DOMAIN initial_dir
    /\ output_dir[FileOf(1)] # initial_dir[FileOf(1)]
    /\ FileOf(2) \notin DOMAIN initial_dir
    /\ FileOf(2) \in DOMAIN output_dir
    /\ FileOf(3) \notin DOMAIN output_dir

ErrorRecord(f) == [pid |-> jobs[f].pid, exception |-> outcome[f]]

\* C13: in process_extracted_documents and in the fetch phase of
\* process_documents_in_bulk (all that precedes the bulk adapter) no
\* exception of a job body is ever in flight in the calling thread or ends
\* the run: every failed job gets one error
\* record with its pid and its exception (never two, and none for a job
\* that did not fail), and the run still takes every other job to its end
\* and returns.
C13_FailuresAreLoggedNotRaised ==
    entry \in {"process_extracted_documents", "process_documents_in_bulk"} =>
        /\ articles_adapter = <<>> => pending \notin JobExceptions
        /\ run_outcome \notin JobExceptions
        /\ \A f \in Futures :
              /\ CopiesIn(ErrorRecord(f), error_log) <= 1
              /\ f \notin Failed => CopiesIn(ErrorRecord(f), error_log) = 0
              /\ (f \in Failed /\ bar_calls[f] > 0 /\ interrupts = 0) =>
                    CopiesIn(ErrorRecord(f), error_log) = 1
        /\ \A r \in BagToSet(error_log) : \E f \in Failed : r = ErrorRecord(f)
        /\ (Ended /\ interrupts = 0 /\ pending # "OSError") =>
              /\ run_outcome = "returned"
              /\ \A f \in Futures : jstate[f] = "finished" /\ bar_calls[f] = 1
              /\ BagCardinality(error_log) = Cardinality(Failed)

C13_Witness ==
    /\ entry = "process_extracted_documents"
    /\ run_outcome = "returned"
    /\ Len(jobs) = 3
    /\ outcome[1].tag = "ArticleMetaDocumentNotFound"
    /\ outcome[2].tag = "Exception"
    /\ outcome[3].kind = "returned"
    /\ BagCardinality(error_log) = 2
    /\ CopiesIn(ErrorRecord(1), error_log) = 1
    /\ CopiesIn(ErrorRecord(2), error_log) = 1

\* process_documents_in_bulk has gone through its bulk step
BulkOver == /\ entry = "process_documents_in_bulk"
            /\ main_pc \in {"exited", "raised"}
            /\ run_outcome = "returned"

\* the documents the fetch phase got
Fetched == {outcome[f] : f \in Succeeded}

\* no bulk adapter before the fetch phase has ended; failed fetches are
\* dropped, logged once each and not retried; never a second adapter
BulkAdapterAfterFetchPhase ==
    /\ Len(articles_adapter) <= 1
    /\ articles_adapter # <<>> =>
          /\ run_outcome = "returned"
          /\ \A f \in Futures : jstate[f] = "finished" /\ fetch_calls[f] = 1
          /\ \A f \in Failed : CopiesIn(ErrorRecord(f), error_log) = 1
          /\ articles_adapter[1].articles = Fetched
          /\ \A f \in Failed : \A d \in articles_adapter[1].articles :
                d.pid # jobs[f].pid

\* C14 as stated: in process_documents_in_bulk, when at least one document
\* was fetched, exactly one bulk adapter is constructed, after the whole
\* fetch phase, over exactly the fetched documents, and its
\* command_function is invoked exactly once.
C14_OneAdapterOneCommand ==
    /\ BulkAdapterAfterFetchPhase
    /\ (BulkOver /\ Fetched # {}) =>
          /\ Len(articles_adapter) = 1
          /\ articles_adapter[1].command_function_calls = 1

\* C14 amended: in process_documents_in_bulk, when at least one document
\* was fetched, the bulk adapter constructor is called exactly once, after
\* the whole fetch phase, with exactly the fetched documents; when the
\* construction succeeds command_function is invoked exactly once, and
\* when it raises (unknown index, command other than export and delete)
\* command_function is not invoked and no request is sent.
C14_OneAdapterCommandIfBuilt ==
    /\ BulkAdapterAfterFetchPhase
    /\ (BulkOver /\ Fetched # {}) =>
          /\ Len(articles_adapter) = 1
          /\ articles_adapter[1].raised = "none" =>
                /\ articles_adapter[1].command_function_calls = 1
                /\ bulk_requests = 1
          /\ articles_adapter[1].raised # "none" =>
                /\ articles_adapter[1].command_function_calls = 0
                /\ bulk_requests = 0
                /\ main_pc = "raised"
                /\ pending = articles_adapter[1].raised

C14_Witness ==
    /\ BulkOver
    /\ Len(jobs) = 3
    /\ outcome[2].tag = "ArticleMetaDocumentNotFound"
    /\ Succeeded = {1, 3}
    /\ Len(articles_adapter) = 1
    /\ Cardinality(articles_adapter[1].articles) = 2
    /\ articles_adapter[1].command_function_calls = 1
    /\ BagCardinality(error_log) = 1

\* C15: when the fetch phase of process_documents_in_bulk ends with no
\* document (no pid at all, or every fetch failed), no bulk adapter is
\* built, no bulk request is sent, the function returns normally and the
\* output file is as it was (absent if it was absent).
C15_NoDocumentsNoBulkStep ==
    (entry = "process_documents_in_bulk" /\ run_outcome = "returned" /\ Fetched = {}) =>
        /\ documents = {}
        /\ articles_adapter = <<>>
        /\ bulk_requests = 0
        /\ ret = <<>>
        /\ output_file = initial_file
        /\ main_pc \in {"returned", "exited"}
        /\ pending = NoException

C15_Witness ==
    /\ entry = "process_documents_in_bulk"
    /\ main_pc = "exited"
    /\ Len(jobs) = 3
    /\ Failed = {1, 2, 3}
    /\ initial_file = <<OldLine>>
    /\ output_file = <<OldLine>>
    /\ BagCardinality(error_log) = 3

\* json.loads of a line written by json.dumps(...) + "\n"
JsonLoads(line) == [pid |-> line[3], status |-> line[5]]

\* the lines at the end of the file, as many as ret has elements
BulkLines == SubSeq(Lines(output_file), Len(Lines(output_file)) - Len(ret) + 1,
                    Len(Lines(output_file)))

\* C16: after a successful bulk command the lines process_documents_in_bulk
\* wrote are one per element of the array command_function returned, in the
\* array's order, and the i-th line decodes to the i-th element.
C16_OneLinePerReturnedElement ==
    (entry = "process_documents_in_bulk" /\ main_pc = "exited" /\ articles_adapter # <<>>) =>
        /\ Len(ret) <= Cardinality(documents)
        /\ Len(Lines(output_file)) \in {Len(ret), Len(Lines(initial_file)) + Len(ret)}
        /\ \A i \in DOMAIN ret :
              /\ BulkLines[i] = <<"{", "pid", ret[i].pid, "status", ret[i].tag, "}", "\n">>
              /\ JsonLoads(BulkLines[i]) = [pid |-> ret[i].pid, status |-> ret[i].tag]

C16_Witness ==
    /\ entry = "process_documents_in_bulk" /\ main_pc = "exited"
    /\ Len(jobs) = 3
    /\ Len(ret) = 2
    /\ ret[1].pid = jobs[3].pid
    /\ ret[2].pid = jobs[1].pid
    /\ JsonLoads(output_file[1]).pid = jobs[3].pid
    /\ JsonLoads(output_file[2]).pid = jobs[1].pid

\* the entry point was given an index or a command its adapter rejects
InvalidInitData ==
    \/ /\ entry = "process_extracted_documents"
       /\ AdapterInit(index, index_command, ConfiguredEnv).class = "InvalidExporterInitData"
    \/ /\ entry = "process_documents_in_bulk"
       /\ index # "doaj" \/ index_command \notin BulkAdapterCommands

\* an adapter constructor has been called
AdapterConstructed ==
    \/ \E f \in Futures : adapter_calls[f] > 0
    \/ articles_adapter # <<>>

\* C18: an unknown index or command given to process_extracted_documents or
\* process_documents_in_bulk is not handled as a failure of one document:
\* no error record is written for a pid on its account, and the
\* orchestration function does not return normally but lets
\* InvalidExporterInitData out to its caller.
C18_InvalidInitDataReachesCaller ==
    (InvalidInitData /\ AdapterConstructed) =>
        /\ \A r \in BagToSet(error_log) : r.exception.tag # "InvalidExporterInitData"
        /\ Ended => main_pc = "raised"
        /\ (Ended /\ interrupts = 0) => pending = "InvalidExporterInitData"

\* a constructor of the class has been called
Constructed(class) ==
    /\ entry = "adapter"
    /\ adapter_input.class = class
    /\ adapter_pc # "new"

InitFailedWith(class, message) ==
    /\ adapter_pc = "init_raised"
    /\ raised_exception = [class |-> class, message |-> message]
    /\ http_log = <<>>
    /\ index_exporters = <<>>

ApiConfigured == environ.DOAJ_API_URL # "" /\ environ.DOAJ_API_KEY # ""

\* C17 as stated: XyloseArticleExporterAdapter built with an index other
\* than "doaj" fails with InvalidExporterInitData "Index informado
\* inválido: <index>"; built with index "doaj" and a command outside
\* {export, update, get, delete} it fails with InvalidExporterInitData
\* "Comando informado inválido: <command>"; the two messages differ and a
\* failed construction issues no HTTP request.
C17_InvalidIndexOrCommand ==
    Constructed("XyloseArticleExporterAdapter") =>
        /\ adapter_input.index # "doaj" =>
              InitFailedWith("InvalidExporterInitData",
                             <<"Index informado inválido: ", adapter_input.index>>)
        /\ (adapter_input.index = "doaj"
              /\ adapter_input.command \notin {"export", "update", "get", "delete"}) =>
              InitFailedWith("InvalidExporterInitData",
                             <<"Comando informado inválido: ", adapter_input.command>>)
        /\ adapter_pc = "init_raised" => http_log = <<>>
        /\ <<"Index informado inválido: ", adapter_input.index>>
              # <<"Comando informado inválido: ", adapter_input.command>>

\* C17 amended: as above, the message of the command being raised when the
\* DOAJ API URL and key are configured; with index "doaj" and one of them
\* missing the construction fails with DOAJExporterXyloseArticleNoRequestData
\* whatever the command. With index "doaj", the configuration present and
\* one of the four commands the construction succeeds.
C17_InvalidIndexOrCommandIfConfigured ==
    Constructed("XyloseArticleExporterAdapter") =>
        /\ adapter_input.index # "doaj" =>
              InitFailedWith("InvalidExporterInitData",
                             <<"Index informado inválido: ", adapter_input.index>>)
        /\ (adapter_input.index = "doaj" /\ ApiConfigured
              /\ adapter_input.command \notin {"export", "update", "get", "delete"}) =>
              InitFailedWith("InvalidExporterInitData",
                             <<"Comando informado inválido: ", adapter_input.command>>)
        /\ (adapter_input.index = "doaj" /\ ~ApiConfigured) =>
              /\ adapter_pc = "init_raised"
              /\ raised_exception.class = "DOAJExporterXyloseArticleNoRequestData"
        /\ (adapter_input.index = "doaj" /\ ApiConfigured
              /\ adapter_input.command \in {"export", "update", "get", "delete"}) =>
              adapter_pc # "init_raised"
        /\ adapter_pc = "init_raised" => http_log = <<>>
        /\ <<"Index informado inválido: ", adapter_input.index>>
              # <<"Comando informado inválido: ", adapter_input.command>>

C17_Witness ==
    /\ Constructed("XyloseArticleExporterAdapter")
    /\ adapter_input.index = "doaj"
    /\ adapter_input.command = "put"
    /\ ApiConfigured
    /\ adapter_pc = "init_raised"
    /\ raised_exception.message = <<"Comando informado inválido: ", "put">>

\* C19 as stated: XyloseArticlesListExporterAdapter takes the commands
\* export and delete only: built with index "doaj" and get, update, put or
\* any other name it fails with InvalidExporterInitData "Comando informado
\* inválido: <command>", built with an unknown index it fails with "Index
\* informado inválido: <index>", and no HTTP request is issued.
C19_BulkCommandsOnly ==
    Constructed("XyloseArticlesListExporterAdapter") =>
        /\ adapter_input.index # "doaj" =>
              InitFailedWith("InvalidExporterInitData",
                             <<"Index informado inválido: ", adapter_input.index>>)
        /\ (adapter_input.index = "doaj"
              /\ adapter_input.command \notin {"export", "delete"}) =>
              InitFailedWith("InvalidExporterInitData",
                             <<"Comando informado inválido: ", adapter_input.command>>)
        /\ adapter_pc # "init_raised" => adapter_input.command \in {"export", "delete"}
        /\ adapter_pc = "init_raised" => http_log = <<>>

\* C19 amended: as above, the message of the command being raised when the
\* set of articles is not empty and the DOAJ API URL and key are
\* configured; with index "doaj", an empty set fails with IndexError and a
\* non-empty set without the configuration fails with
\* DOAJExporterXyloseArticleNoRequestData, whatever the command.
C19_BulkCommandsOnlyIfBuildable ==
    Constructed("XyloseArticlesListExporterAdapter") =>
        /\ adapter_input.index # "doaj" =>
              InitFailedWith("InvalidExporterInitData",
                             <<"Index informado inválido: ", adapter_input.index>>)
        /\ (adapter_input.index = "doaj" /\ adapter_input.articles # {} /\ ApiConfigured
              /\ adapter_input.command \notin {"export", "delete"}) =>
              InitFailedWith("InvalidExporterInitData",
                             <<"Comando informado inválido: ", adapter_input.command>>)
        /\ (adapter_input.index = "doaj" /\ adapter_input.articles = {}) =>
              /\ adapter_pc = "init_raised"
              /\ raised_exception.class = "IndexError"
        /\ (adapter_input.index = "doaj" /\ adapter_input.articles # {} /\ ~ApiConfigured) =>
              /\ adapter_pc = "init_raised"
              /\ raised_exception.class = "DOAJExporterXyloseArticleNoRequestData"
        /\ adapter_pc # "init_raised" =>
              /\ adapter_input.command \in {"export", "delete"}
              /\ Len(index_exporters) = Cardinality(adapter_input.articles)
        /\ adapter_pc = "init_raised" => http_log = <<>>

C19_Witness ==
    /\ Constructed("XyloseArticlesListExporterAdapter")
    /\ adapter_input.index = "doaj"
    /\ adapter_input.command = "get"
    /\ Cardinality(adapter_input.articles) = 2
    /\ ApiConfigured
    /\ adapter_pc = "init_raised"
    /\ raised_exception.message = <<"Comando informado inválido: ", "get">>

\* the request answered is the POST of export or the PUT of update
DetailedRequest == request.method \in {"POST", "PUT"}

\* C20: for the single-document adapter every response whose status is not
\* 2xx makes command_function raise IndexExporterHTTPError, with a message
\* that names the index and the HTTP error and ends there, except that for
\* the POST of export and the PUT of update answered with status 400 the
\* detail of the service follows after a space ("Erro na exportação ao
\* <index>: <http-error>. <detail>" for export); get, delete and the GET of
\* update never carry a detail.
C20_ErrorStatusRaisesWithDetailRule ==
    [][(/\ Constructed("XyloseArticleExporterAdapter")
        /\ adapter_pc = "responded" /\ adapter_pc' # "responded"
        /\ ~(200 <= response.status_code /\ response.status_code < 300)) =>
           LET message == raised_exception'.message
               detail == IF DetailedRequest /\ response.status_code = 400
                         THEN <<" ">> \o response.error ELSE <<>>
           IN  /\ adapter_pc' = "raised"
               /\ raised_exception'.class = "IndexExporterHTTPError"
               /\ Len(message) = 6 + Len(detail)
               /\ SubSeq(message, 2, 6) =
                      <<adapter_input.index, ": ", response.status_code, " Error", ".">>
               /\ SubSeq(message, 7, Len(message)) = detail
               /\ Command = "export" => message[1] = "Erro na exportação ao "
               /\ http_log' = http_log]_vars

\* C21: for the bulk adapter every response to the POST of export or the
\* DELETE of delete whose status is not 2xx makes command_function raise
\* IndexExporterHTTPError with a message that names the index and the HTTP
\* error; the detail of the service follows, after a space, only when the
\* status is 400; for any other status the message ends with the HTTP
\* error and nothing of the body is in it.
C21_BulkErrorDetailOnlyFor400 ==
    [][(/\ Constructed("XyloseArticlesListExporterAdapter")
        /\ adapter_pc = "responded" /\ adapter_pc' # "responded"
        /\ ~(200 <= response.status_code /\ response.status_code < 300)) =>
           LET message == raised_exception'.message
               detail == IF response.status_code = 400
                         THEN <<" ">> \o response.error ELSE <<>>
           IN  /\ adapter_pc' = "raised"
               /\ raised_exception'.class = "IndexExporterHTTPError"
               /\ Len(message) = 6 + Len(detail)
               /\ SubSeq(message, 2, 6) =
                      <<adapter_input.index, ": ", response.status_code, " Error", ".">>
               /\ SubSeq(message, 7, Len(message)) = detail
               /\ message[1] = IF Command = "export" THEN "Erro na exportação ao "
                                ELSE "Erro ao deletar no "
               /\ http_log' = http_log]_vars

C23_ResultsCarryThePid ==
    [][(/\ Constructed("XyloseArticleExporterAdapter")
        /\ adapter_pc = "responded" /\ adapter_pc' # "responded"
        /\ IsSuccess(response.status_code)
        /\ ~(Command = "update" /\ request.method = "GET")) =>
           LET pid == Exporter(1).code
               body == response.body
               result == command_result'[1]
           IN  /\ adapter_pc' = "returned"
               /\ Len(command_result') = 1
               /\ result.pid = pid
               /\ Command = "export" =>
                     result = [index_id |-> IF "id" \in DOMAIN body[1]
                                            THEN body[1].id ELSE <<"None">>,
                               status |-> body[1].status,
                               pid |-> pid]
               /\ Command = "update" => result = [pid |-> pid, status |-> "UPDATED"]
               /\ Command = "get" =>
                     /\ DOMAIN result = DOMAIN body[1] \cup {"pid"}
                     /\ \A k \in DOMAIN body[1] : result[k] = body[1][k]
               /\ Command = "delete" => result = [pid |-> pid, status |-> "DELETED"]]_vars

C23_Witness ==
    /\ Constructed("XyloseArticleExporterAdapter")
    /\ Command = "export"
    /\ adapter_pc = "returned"
    /\ response.status_code = 200
    /\ Exporter(1).code = Pids[2]
    /\ command_result = <<[index_id |-> <<"id for", "title of", Pids[2]>>,
                           status |-> "created", pid |-> Pids[2]]>>

\* the pid of the document a payload was built from
PayloadPid(payload) == payload.bibjson.title[2]

\* C24: the bulk adapter's list of exporters holds every article of the
\* set once and does not change after the construction. Bulk export sends
\* one request, a POST to the bulk URL, whose JSON array holds the payload
\* of the i-th exporter at position i; what it returns holds, at each
\* position i it has, post_response of the i-th element of the response
\* array with the pid of the i-th exporter, which is the pid of the
\* document whose payload was posted at position i.
C24_BulkExportKeepsPositions ==
    [][(Constructed("XyloseArticlesListExporterAdapter") /\ Command = "export"
          /\ adapter_pc # "init_raised") =>
          /\ index_exporters' = index_exporters
          /\ {index_exporters[i].index_exporter : i \in DOMAIN index_exporters}
                = adapter_input.articles
          /\ Len(index_exporters) = Cardinality(adapter_input.articles)
          /\ \A i \in DOMAIN index_exporters :
                index_exporters[i].pid = index_exporters[i].index_exporter.code
          /\ \A k \in DOMAIN http_log' :
                /\ http_log'[k] = request'
                /\ request'.method = "POST" /\ request'.url = BulkArticlesUrl
                /\ Len(request'.json) = Len(index_exporters)
                /\ \A i \in DOMAIN index_exporters :
                      /\ request'.json[i] = PostRequest(Exporter(i))
                      /\ PayloadPid(request'.json[i]) = index_exporters[i].pid
          /\ adapter_pc' = "returned" =>
                /\ Len(command_result') <= Len(index_exporters)
                /\ Len(command_result') <= Len(response'.body)
                /\ Len(command_result') \in {Len(index_exporters), Len(response'.body)}
                /\ \A i \in DOMAIN command_result' :
                      /\ command_result'[i].pid = index_exporters[i].pid
                      /\ command_result'[i].pid = PayloadPid(http_log'[1].json[i])
                      /\ command_result'[i].index_id = response'.body[i].id
                      /\ command_result'[i].status = response'.body[i].status]_vars

C24_Witness ==
    /\ Constructed("XyloseArticlesListExporterAdapter")
    /\ Command = "export"
    /\ adapter_pc = "returned"
    /\ Len(index_exporters) = 2
    /\ index_exporters[1].pid = Pids[3]
    /\ index_exporters[2].pid = Pids[1]
    /\ Len(http_log) = 1
    /\ command_result =
          <<[index_id |-> <<"id for", "title of", Pids[3]>>, status |-> "created",
             pid |-> Pids[3]],
            [index_id |-> <<"id for", "title of", Pids[1]>>, status |-> "created",
             pid |-> Pids[1]]>>

\* C25: bulk delete sends one request, a DELETE to the bulk URL, whose
\* JSON array holds at position i the identifier the i-th exporter has in
\* the index (None when its article has no doaj_id); answered 2xx it
\* returns, whatever the body of the response, exactly one
\* {pid, status: "DELETED"} for every article of the adapter.
C25_BulkDeleteAnswersEveryMember ==
    (Constructed("XyloseArticlesListExporterAdapter") /\ Command = "delete"
       /\ adapter_pc # "init_raised") =>
       /\ \A k \in DOMAIN http_log :
             /\ http_log[k] = request
             /\ request.method = "DELETE" /\ request.url = BulkArticlesUrl
             /\ Len(request.json) = Len(index_exporters)
             /\ \A i \in DOMAIN index_exporters :
                   request.json[i] =
                      IF index_exporters[i].index_exporter.doaj_id = "" THEN "None"
                      ELSE index_exporters[i].index_exporter.doaj_id
       /\ (IsSuccess(response.status_code) /\ adapter_pc # "responded") =>
             /\ adapter_pc = "returned"
             /\ Len(command_result) = Cardinality(adapter_input.articles)
             /\ \A a \in adapter_input.articles :
                   Cardinality({i \in DOMAIN command_result :
                                   command_result[i] = [pid |-> a.code,
                                                        status |-> "DELETED"]}) = 1

C25_Witness ==
    /\ Constructed("XyloseArticlesListExporterAdapter")
    /\ Command = "delete"
    /\ adapter_pc = "returned"
    /\ response.status_code = 200
    /\ response.body = <<[status |-> "partial"]>>
    /\ request.json = <<"None", "doaj-1">>
    /\ command_result = <<[pid |-> Pids[2], status |-> "DELETED"],
                          [pid |-> Pids[1], status |-> "DELETED"]>>

\* the attempts k..Len(http_log) are attempts of one send
SameSendFrom(k) == \A j \in k..Len(http_log) : http_log[j] = http_log[k]

\* C26: one send is attempted at most EXPORT_RUN_RETRIES times; an attempt
\* is followed by another attempt of the same send only if it raised a
\* connection error or a timeout; an attempt that got a response, whatever
\* its status, is never followed by another attempt of that send; and when
\* the last attempt allowed has failed too, or an attempt raised anything
\* else, command_function raises and returns nothing.
C26_RetriesOnlyTransportFailures ==
    entry = "adapter" =>
       /\ Len(outcomes) = Len(http_log)
       /\ \A k \in DOMAIN http_log :
             /\ (k + EXPORT_RUN_RETRIES) \in DOMAIN http_log =>
                   \E j \in (k + 1)..(k + EXPORT_RUN_RETRIES) : http_log[j] # http_log[k]
             /\ (k + 1) \in DOMAIN http_log =>
                   /\ outcomes[k].exception = NoException => http_log[k + 1] # http_log[k]
                   /\ http_log[k + 1] = http_log[k] =>
                         outcomes[k].exception \in {"ConnectionError", "Timeout"}
       /\ http_log # <<>> =>
             LET last == outcomes[Len(outcomes)]
                 first == Len(http_log) + 1 - EXPORT_RUN_RETRIES
             IN  /\ last.exception = NoException => adapter_pc # "sending" \/ attempts = 0
                 /\ (last.exception # NoException
                       /\ \/ last.exception \notin {"ConnectionError", "Timeout"}
                          \/ first >= 1 /\ SameSendFrom(first)) =>
                       /\ adapter_pc = "raised"
                       /\ raised_exception # NoError
                       /\ raised_exception.message = <<last.exception>>
                       /\ command_result = NoResult

C26_Witness ==
    /\ entry = "adapter"
    /\ Command = "update"
    /\ adapter_pc = "raised"
    /\ raised_exception.class = "RetryError"
    /\ Len(http_log) = 5
    /\ http_log[1].method = "GET" /\ http_log[2] = http_log[1]
    /\ outcomes[1].exception = "Timeout"
    /\ outcomes[2].status_code = 200
    /\ http_log[3].method = "PUT" /\ SameSendFrom(3)
    /\ outcomes[3].exception = "ConnectionError"
    /\ outcomes[4].exception = "Timeout"
    /\ outcomes[5].exception = "ConnectionError"

NotFound(f) == outcome[f].kind = "raised" /\ outcome[f].tag = "ArticleMetaDocumentNotFound"

\* C27: a job body that gets nothing or an empty document from the source
\* raises ArticleMetaDocumentNotFound after its one get_document call,
\* with no adapter built and no command run for it (execute_get_document
\* never hands such a document on, and an adapter is built only by a job
\* that got its article); in both orchestration functions the failure is
\* logged once with the pid of its job when the job's callback is made,
\* and the other jobs are still run to their end before the run returns.
C27_NotFoundBeforeAnyAdapter ==
    /\ \A f \in Futures :
          /\ NotFound(f) =>
                /\ jstate[f] = "finished"
                /\ fetch_calls[f] = 1
                /\ adapter_calls[f] = 0
                /\ outcome[f].pid = jobs[f].pid
                /\ outcome[f] \notin documents
          /\ adapter_calls[f] > 0 => fetch_calls[f] = 1 /\ ~NotFound(f)
          /\ (outcome[f].kind = "returned" /\ fetch_calls[f] > 0
                /\ func = "execute_get_document") => outcome[f].tag = "Article"
    /\ \A d \in documents : d.kind = "returned"
    /\ \A i \in DOMAIN articles_adapter :
          \A d \in articles_adapter[i].articles : d.kind = "returned"
    /\ entry \in {"process_extracted_documents", "process_documents_in_bulk"} =>
          /\ \A f \in Futures :
                (NotFound(f) /\ bar_calls[f] > 0 /\ interrupts = 0) =>
                    CopiesIn(ErrorRecord(f), error_log) = 1
          /\ (run_outcome = "returned" /\ \E f \in Futures : NotFound(f)) =>
                \A g \in Futures : jstate[g] = "finished" /\ bar_calls[g] = 1
          /\ run_outcome # "ArticleMetaDocumentNotFound"

C27_Witness ==
    /\ entry = "process_documents_in_bulk"
    /\ main_pc = "exited"
    /\ Len(jobs) = 3
    /\ NotFound(2)
    /\ outcome[1].kind = "returned" /\ outcome[3].kind = "returned"
    /\ adapter_calls[2] = 0
    /\ CopiesIn(ErrorRecord(2), error_log) = 1
    /\ Len(articles_adapter) = 1
    /\ articles_adapter[1].articles = {outcome[1], outcome[3]}
    /\ bulk_requests = 1

\* the members put_request assigns from the Document
OverwrittenMembers == {"last_updated", "bibjson", "es_type"}
OverwrittenBibjsonMembers ==
    {"abstract", "author", "identifier", "journal", "keywords", "link", "title",
     "month", "year"}

\* C28: the payload update sends is put_request(body of the GET): every
\* member of the body that the Document does not overwrite is in the
\* payload unchanged (created_date, id, and the same inside bibjson), and
\* last_updated is the timestamp of the moment put_request is called.
C28_PutRequestPreservesAndRefreshes ==
    [][(/\ Constructed("XyloseArticleExporterAdapter") /\ Command = "update"
        /\ request.method = "GET" /\ request'.method = "PUT") =>
           LET get_body == response.body[1]
               payload == request'.json[1]
           IN  /\ \A k \in DOMAIN get_body \ OverwrittenMembers :
                     k \in DOMAIN payload /\ payload[k] = get_body[k]
               /\ "bibjson" \in DOMAIN get_body =>
                     \A k \in DOMAIN get_body.bibjson \ OverwrittenBibjsonMembers :
                        /\ k \in DOMAIN payload.bibjson
                        /\ payload.bibjson[k] = get_body.bibjson[k]
               /\ payload.last_updated = UtcNow]_vars

ExecutorRuns == entry \in {"process_extracted_documents",
                           "process_documents_in_bulk", "JobExecutor"}

\* the step in which JobExecutor.run returns or raises
RunExits == run_outcome = "running" /\ run_outcome' # "running"

\* every submitted job body has been started and has finished
AllBodiesDone ==
    \A f \in Submitted : jstate[f] = "finished" /\ call_args[f] # NoArgs

\* no job body is killed and no queued job is dropped: a body only moves
\* forward, and a job leaves the queue only by being started
NothingKilledOrDropped ==
    \A f \in Submitted :
       /\ jstate[f] = "queued" =>
             \/ jstate'[f] = "queued" /\ \E i \in DOMAIN work_queue' : work_queue'[i] = f
             \/ jstate'[f] \in {"fetch", "finished"} /\ call_args'[f] # NoArgs
       /\ jstate[f] = "fetch" => jstate'[f] \in {"fetch", "command", "finished"}
       /\ jstate[f] = "command" => jstate'[f] \in {"command", "finished"}
       /\ jstate[f] = "finished" => jstate'[f] = "finished" /\ outcome'[f] = outcome[f]

CallbackHasRaised == pending = "OSError" /\ interrupts = 0

\* C30: when success_callback or exception_callback raises inside
\* JobExecutor.run (and the run is not interrupted), update_bar is called
\* once for the job of that callback; the exception is not caught, not
\* logged and does not poison the token; the futures as_completed had not
\* yielded get no callback and no tick; run raises the callback's exception,
\* and only when every submitted job body has finished.
C30_CallbackExceptionPropagates ==
    (ExecutorRuns /\ CallbackHasRaised) =>
        /\ main_pc \in {"finally", "in_update_bar", "exit", "raised"}
        /\ Len(callback_calls[cur]) = 1
        /\ bar_calls[cur] = (IF main_pc = "finally" THEN 0 ELSE 1)
        /\ info_log = <<>>
        /\ "poisoned" \notin executor_attrs
        /\ \A p \in PillIds : ~poisoned[p]
        /\ \A r \in BagToSet(error_log) : r.exception.tag # "OSError"
        /\ \A f \in Submitted \ yielded :
              callback_calls[f] = <<>> /\ bar_calls[f] = 0
        /\ run_outcome \in {"running", "OSError"}
        /\ run_outcome = "OSError" <=> main_pc = "raised"
        /\ run_outcome = "OSError" => AllBodiesDone

C30_Witness ==
    /\ entry = "JobExecutor"
    /\ CallbackHasRaised
    /\ run_outcome = "OSError"
    /\ CurrentCall.callback = "exception_callback"
    /\ bar_calls[cur] = 1
    /\ \E f \in Submitted \ yielded : fetch_calls[f] = 1 /\ jstate[f] = "finished"

\* the bulk step of process_documents_in_bulk has raised
BulkStepFailed ==
    /\ entry = "process_documents_in_bulk"
    /\ run_outcome = "returned"
    /\ main_pc = "raised"

\* C32: when the construction of the bulk adapter or its command_function
\* raises, the exception leaves process_documents_in_bulk: nothing is
\* logged for it, no result is kept, and the output file is as it was when
\* the function was called (absent if it was absent).
C32_BulkFailurePropagates ==
    BulkStepFailed =>
        /\ pending \in {"InvalidExporterInitData", "IndexExporterHTTPError"}
        /\ output_file = initial_file
        /\ ret = <<>>
        /\ Len(articles_adapter) = 1
        /\ \A r \in BagToSet(error_log) : r.exception.tag \in JobExceptions
        /\ BagCardinality(error_log) =
              Cardinality({f \in Submitted : outcome[f].kind = "raised"})

C32_Witness ==
    /\ BulkStepFailed
    /\ pending = "IndexExporterHTTPError"
    /\ bulk_requests = 1
    /\ initial_file = <<OldLine>>
    /\ output_file = <<OldLine>>
    /\ Cardinality(documents) = 2
    /\ error_log # EmptyBag

\* update goes from its GET to its PUT in this step
UpdateBuildsPut ==
    /\ Constructed("XyloseArticleExporterAdapter") /\ Command = "update"
    /\ request.method = "GET" /\ request'.method = "PUT"

\* the bibjson members put_request assigns whatever the Document holds
AssignedBibjsonMembers == {"identifier", "journal", "title", "month", "year"}

RunReturnedComplete ==
    /\ run_outcome = "returned"
    /\ Len(futures) = Len(jobs)
    /\ \A f \in Submitted :
          /\ jstate[f] = "finished"
          /\ fetch_calls[f] = 1
          /\ Len(callback_calls[f]) = 1
          /\ bar_calls[f] = 1

\* C34: with threads that are scheduled and job bodies and callbacks that
\* end, a run in which no callback raises and no interrupt arrives
\* eventually returns, for every job list and every max_workers >= 1, and
\* by then every job has been executed and has had its terminal callback.
C34_RunEventuallyReturns ==
    <>(RunReturnedComplete \/ interrupts > 0 \/ pending = "OSError")

C34_Witness ==
    /\ RunReturnedComplete
    /\ interrupts = 0
    /\ pending = NoException
    /\ Len(jobs) = 3
    /\ max_workers = 1
    /\ \E f \in Submitted : outcome[f].kind = "raised"

Min(a, b) == IF a < b THEN a ELSE b

\* the bulk export adapter is looking at a 2xx response that has a body
BulkExportAnswered ==
    /\ Constructed("XyloseArticlesListExporterAdapter") /\ Command = "export"
    /\ adapter_pc = "responded"
    /\ IsSuccess(response.status_code) /\ response.has_body

\* C35: bulk export answered 2xx with an array returns as many results as
\* the shorter of the list of documents and the array has elements, and
\* raises nothing: with a shorter array the results are those of the
\* leading documents and the trailing ones get none.
C35_BulkExportReturnsTheShorter ==
    [][BulkExportAnswered =>
         /\ adapter_pc' = "returned"
         /\ raised_exception' = NoError
         /\ Len(command_result') = Min(Len(index_exporters), Len(response.body))
         /\ \A i \in DOMAIN command_result' :
               command_result'[i].pid = index_exporters[i].pid
         /\ Len(response.body) < Len(index_exporters) =>
               \A i \in DOMAIN index_exporters :
                  i > Len(response.body) =>
                    \A j \in DOMAIN command_result' :
                       command_result'[j].pid # index_exporters[i].pid]_vars

C35_Witness ==
    /\ Constructed("XyloseArticlesListExporterAdapter") /\ Command = "export"
    /\ adapter_pc = "returned"
    /\ Len(index_exporters) = 2
    /\ Len(http_log[1].json) = 2
    /\ Len(response.body) = 1
    /\ Len(command_result) = 1
    /\ command_result[1].pid = index_exporters[1].pid

\* C36: an outcome callback is called for a job only once its body has
\* finished, with the outcome of that body; the file of
\* process_extracted_documents gets, in the order of the callbacks, lines
\* that are each the result of a different job that succeeded, and after a
\* normal return one line for every such job: the results as a set, in an
\* order the submission order does not decide.
C36_CallbacksFollowCompletion ==
    /\ \A f \in Submitted :
          callback_calls[f] # <<>> =>
             /\ jstate[f] = "finished"
             /\ f \in yielded
             /\ callback_calls[f][1].payload = outcome[f]
    /\ (entry = "process_extracted_documents" /\ ~is_dir) =>
          /\ \A i \in DOMAIN NewLines :
                \E f \in Succeeded :
                   /\ NewLines[i] = JsonLine(outcome[f])
                   /\ callback_calls[f] # <<>>
          /\ \A i, j \in DOMAIN NewLines : NewLines[i] = NewLines[j] => i = j
          /\ main_pc = "returned" => Len(NewLines) = Cardinality(Succeeded)

C36_Witness ==
    /\ entry = "process_extracted_documents" /\ ~is_dir
    /\ main_pc = "returned"
    /\ Len(jobs) = 3
    /\ Len(NewLines) = 3
    /\ NewLines[1] = JsonLine(outcome[3])
    /\ NewLines[2] = JsonLine(outcome[1])
    /\ NewLines[3] = JsonLine(outcome[2])

\* every attempt made so far was answered with a 2xx status
AllAnswered2xx ==
    \A k \in DOMAIN outcomes :
       outcomes[k].exception = NoException /\ IsSuccess(outcomes[k].status_code)

\* the HTTP methods of one invocation of the command
MethodsOfCommand ==
    CASE Command = "export" -> <<"POST">>
      [] Command = "update" -> <<"GET", "PUT">>
      [] Command = "get" -> <<"GET">>
      [] OTHER -> <<"DELETE">>

\* what the adapter has sent when each of its invocations went through
RequestsOfInvocations ==
    /\ Len(http_log) = invocations * Len(MethodsOfCommand)
    /\ \A k \in DOMAIN http_log :
          http_log[k].method =
             MethodsOfCommand[((k - 1) % Len(MethodsOfCommand)) + 1]

\* a repeated call of command_function begins in this step
CalledAgain == invocations >= 1 /\ invocations' = invocations + 1

C38_OneFreshTokenPerRun ==
    ExecutorRuns =>
       \A f \in Submitted :
          call_args[f] # NoArgs =>
             /\ call_args[f].poison_pill = "executor"
             /\ \A r \in DOMAIN earlier_runs :
                   call_args[f].poison_pill \notin earlier_runs[r]

====
